---- MODULE Spec2Model ----
(***************************************************************************)
(* Model of the autoscaling decision engine of tfc-agent-autoscaler        *)
(* (internal/scaler/scaler.go): one Scaler, its Reconcile cycle, the       *)
(* protection correlation of protectBusyTasks and computeDesired; the Run  *)
(* loop with its ready channel, context and ticker; the CompositeProbe of  *)
(* internal/health and the ServiceView of internal/tfc.                    *)
(*                                                                         *)
(* Time is a natural-number clock; the zero time.Time is 0 and the clock   *)
(* starts at 1, so lastScaleTime.IsZero() is lastScaleTime = 0.            *)
(* All counts stay far inside the int32 range, where the int32(...)        *)
(* conversions of Reconcile are value preserving.                          *)
(***************************************************************************)
EXTENDS Integers, Sequences, FiniteSets, TLC

\* ------------------------------------------------------------------ bounds
MaxCount == 1        \* busy, idle and pending readings range over 0..MaxCount
MaxDesired == 2      \* the service's desired count ranges over 0..MaxDesired
MaxCfg == 1          \* minAgents <= maxAgents range over 0..MaxCfg
MaxCooldown == 1     \* cooldown ranges over 0..MaxCooldown clock units
MaxTime == 3         \* the clock stops at MaxTime
MaxLatency == 1      \* clock units a remote write may take
MaxList == 2         \* longest agent list and task list
MaxWaiters == 2      \* goroutines that receive from Ready()
MaxProbes == 3       \* sub-probes of a CompositeProbe
MaxViewList == 1     \* longest agent list and task list of a cycle through a ServiceView
MaxArns == 21        \* longest handle list passed to ecs.Client.SetTaskProtection
MaxPoll == 2         \* pollInterval ranges over 1..MaxPoll clock units
MaxRunTime == 5      \* the clock of a Run under its ticker stops at MaxRunTime

\* ------------------------------------------------------- program constants
ProtectionMinutes == 120

\* const batchSize in ecs.Client.SetTaskProtection.
batchSize == 10

Counts == 0..MaxCount
IPs == {"", "10.0.0.1", "10.0.0.2"}
Statuses == {"busy", "idle", "exited"}

\* tfc.AgentInfo, reduced to the two fields the scaler reads.
AgentInfo == [IP : IPs, Status : Statuses]

AgentLists == UNION {[1..k -> AgentInfo] : k \in 0..MaxList}

\* ecs.TaskInfo; a task's ARN is unique, it is the task's position in the list.
TaskLists ==
  UNION {{[i \in 1..k |-> [TaskArn |-> i, PrivateIP |-> f[i]]] : f \in [1..k -> IPs]}
         : k \in 0..MaxList}

VARIABLES
  minAgents,       \* Scaler.minAgents
  maxAgents,       \* Scaler.maxAgents
  cooldown,        \* Scaler.cooldown
  metrics,         \* Scaler.metrics: TRUE iff a recorder is configured
  lastScaleTime,   \* Scaler.lastScaleTime (0 = zero time)
  now,             \* the wall clock
  ecsDesired,      \* desired count of the ECS service
  lastDownApply,   \* history: clock of the last successful scale-down write (0 = none)
  cycle,           \* what the last Reconcile invocation read, called, recorded, returned
  protectRun,      \* the last protectBusyTasks run on its own: what the remote calls
                   \* returned (in) and what it did with it (out)
  run,             \* Scaler.Run: its position, its context, its ticker, and the
                   \* Scaler's ready channel with its sync.Once
  waiters,         \* goroutines receiving from Ready() and the last poll of it
  prev,            \* history: what the Reconcile invocation before cycle read and wrote
  probe,           \* a health.CompositeProbe, its channels and its last IsReady call
  view,            \* the last ServiceView query run on its own (in, out)
  pend,            \* the last pending-run query: what the job service returned
                   \* (in) and what the client and the two ServiceViews made of it
  batch,           \* the last ecs.Client.SetTaskProtection call: its arguments
                   \* and the UpdateTaskProtection failure (in), the requests
                   \* sent and the result (out)
  twin,            \* history: the cycle of a Scaler with a recorder, kept to be
                   \* compared with the cycle of the same Scaler without one
  ticker,          \* the time.Ticker of Run on the clock, and the clock at which
                   \* the last Reconcile of Run began
  dual             \* runDualService: its position, its context, its WaitGroup,
                   \* its two Scalers and their two ECS services

vars == <<minAgents, maxAgents, cooldown, metrics, lastScaleTime, now,
          ecsDesired, lastDownApply, cycle, protectRun, run, waiters, prev,
          probe, view, pend, batch, twin, ticker, dual>>

config == <<minAgents, maxAgents, cooldown>>

\* ----------------------------------------------------------- pure helpers
Min2(a, b) == IF a < b THEN a ELSE b
Max2(a, b) == IF a > b THEN a ELSE b

computeDesiredSwapped(pendingRuns, busyAgents, minA, maxA) ==
  Min2(minA, Max2(pendingRuns + busyAgents, maxA))

\* The demand is capped at maxA and not raised to minA.
computeDesiredNoFloor(pendingRuns, busyAgents, minA, maxA) ==
  Min2(pendingRuns + busyAgents, maxA)

\* computeDesired: desired = max(min, min(pendingRuns + busyAgents, max))
computeDesired(pendingRuns, busyAgents, minA, maxA) ==
  LET desired == pendingRuns + busyAgents
  IN  Max2(minA, Min2(desired, maxA))

cooldownActiveNever(last, t, cd) == FALSE

cooldownActiveShort(last, t, cd) == last # 0 /\ t - last < cd - 1

\* The cooldown never runs out.
cooldownActiveAlways(last, t, cd) == last # 0

\* !s.lastScaleTime.IsZero() && time.Since(s.lastScaleTime) < s.cooldown
cooldownActive(last, t, cd) == last # 0 /\ t - last < cd

idleGuardNoCap(currentDesired, desired, idle) == desired

\* The idle guard: scaleDownBy = min(currentDesired - desired, idle);
\* the guarded desired count is currentDesired - scaleDownBy.
idleGuard(currentDesired, desired, idle) ==
  LET scaleDownBy0 == currentDesired - desired
      scaleDownBy == IF idle < scaleDownBy0 THEN idle ELSE scaleDownBy0
  IN  currentDesired - scaleDownBy

\* One client call as the cycle's trace keeps it.
Call(op, count, arns, enabled, minutes, failed) ==
  [op |-> op, count |-> count, arns |-> arns, enabled |-> enabled,
   minutes |-> minutes, failed |-> failed]

ReadCall(op, failed) == Call(op, 0, <<>>, FALSE, 0, failed)

EmptyMap == [ip \in {} |-> 0]

RECURSIVE buildIpToArnKeepsEmpty(_, _, _)
\* A task with an empty PrivateIP is entered under the key "".
buildIpToArnKeepsEmpty(tasks, i, m) ==
  IF i > Len(tasks) THEN m
  ELSE LET t == tasks[i]
           m2 == [ip \in (DOMAIN m) \cup {t.PrivateIP} |->
                    IF ip = t.PrivateIP THEN t.TaskArn ELSE m[ip]]
       IN  buildIpToArnKeepsEmpty(tasks, i + 1, m2)

RECURSIVE buildIpToArn(_, _, _)
\* The loop building ipToArn: tasks with an empty PrivateIP are skipped, a
\* later task with the same IP overwrites an earlier one.
buildIpToArn(tasks, i, m) ==
  IF i > Len(tasks) THEN m
  ELSE LET t == tasks[i]
           m2 == IF t.PrivateIP # ""
                   THEN [ip \in (DOMAIN m) \cup {t.PrivateIP} |->
                           IF ip = t.PrivateIP THEN t.TaskArn ELSE m[ip]]
                   ELSE m
       IN  buildIpToArn(tasks, i + 1, m2)

ipToArn(tasks) == buildIpToArn(tasks, 1, EmptyMap)

RECURSIVE partitionArnsIdleOnly(_, _, _, _, _)
\* Only agents with status idle are put on the disable list.
partitionArnsIdleOnly(agents, m, i, busyArns, idleArns) ==
  IF i > Len(agents) THEN [busyArns |-> busyArns, idleArns |-> idleArns]
  ELSE LET agent == agents[i]
       IN  IF agent.IP \notin DOMAIN m
             THEN partitionArnsIdleOnly(agents, m, i + 1, busyArns, idleArns)
             ELSE IF agent.Status = "busy"
               THEN partitionArnsIdleOnly(agents, m, i + 1, Append(busyArns, m[agent.IP]), idleArns)
               ELSE IF agent.Status = "idle"
                 THEN partitionArnsIdleOnly(agents, m, i + 1, busyArns, Append(idleArns, m[agent.IP]))
                 ELSE partitionArnsIdleOnly(agents, m, i + 1, busyArns, idleArns)

RECURSIVE partitionArns(_, _, _, _, _)
\* The loop over agents: an agent whose IP is not in the map is skipped, a
\* busy one appends to busyArns, any other status appends to idleArns.
partitionArns(agents, m, i, busyArns, idleArns) ==
  IF i > Len(agents) THEN [busyArns |-> busyArns, idleArns |-> idleArns]
  ELSE LET agent == agents[i]
       IN  IF agent.IP \notin DOMAIN m
             THEN partitionArns(agents, m, i + 1, busyArns, idleArns)
             ELSE IF agent.Status = "busy"
               THEN partitionArns(agents, m, i + 1, Append(busyArns, m[agent.IP]), idleArns)
               ELSE partitionArns(agents, m, i + 1, busyArns, Append(idleArns, m[agent.IP]))

\* One call per task handle in place of one call per list.
protectBusyTasksPerTask(in) ==
  LET c1 == <<ReadCall("GetAgentDetails", in.detailsErr)>>
  IN
  IF in.detailsErr
    THEN [calls |-> c1, err |-> TRUE]
  ELSE
  LET c2 == Append(c1, ReadCall("GetTaskIPs", in.tasksErr))
  IN
  IF in.tasksErr
    THEN [calls |-> c2, err |-> TRUE]
  ELSE
  LET p == partitionArns(in.agents, ipToArn(in.tasks), 1, <<>>, <<>>)
      on == [i \in 1..Len(p.busyArns) |->
               Call("SetTaskProtection", 0, <<p.busyArns[i]>>, TRUE,
                    ProtectionMinutes, FALSE)]
      off == [i \in 1..Len(p.idleArns) |->
                Call("SetTaskProtection", 0, <<p.idleArns[i]>>, FALSE, 0, FALSE)]
  IN  [calls |-> c2 \o on \o off, err |-> FALSE]

\* A failed enable call does not end protectBusyTasks: the disable call is
\* made all the same.
protectBusyTasksGoesOn(in) ==
  LET c1 == <<ReadCall("GetAgentDetails", in.detailsErr)>>
  IN
  IF in.detailsErr
    THEN [calls |-> c1, err |-> TRUE]
  ELSE
  LET c2 == Append(c1, ReadCall("GetTaskIPs", in.tasksErr))
  IN
  IF in.tasksErr
    THEN [calls |-> c2, err |-> TRUE]
  ELSE
  LET p == partitionArns(in.agents, ipToArn(in.tasks), 1, <<>>, <<>>)
      c3 == IF Len(p.busyArns) > 0
              THEN Append(c2, Call("SetTaskProtection", 0, p.busyArns, TRUE,
                                   ProtectionMinutes, in.enableErr))
              ELSE c2
      c4 == IF Len(p.idleArns) > 0
              THEN Append(c3, Call("SetTaskProtection", 0, p.idleArns, FALSE,
                                   0, in.disableErr))
              ELSE c3
  IN
  [calls |-> c4, err |-> \/ Len(p.busyArns) > 0 /\ in.enableErr
                         \/ Len(p.idleArns) > 0 /\ in.disableErr]

\* protectBusyTasks.  in: the outcome of each remote call it may make
\* (detailsErr, agents, tasksErr, tasks, enableErr, disableErr).
\* Result: the calls it issued and whether it returned an error.
protectBusyTasks(in) ==
  LET c1 == <<ReadCall("GetAgentDetails", in.detailsErr)>>
  IN
  IF in.detailsErr
    THEN [calls |-> c1, err |-> TRUE]
  ELSE
  LET c2 == Append(c1, ReadCall("GetTaskIPs", in.tasksErr))
  IN
  IF in.tasksErr
    THEN [calls |-> c2, err |-> TRUE]
  ELSE
  LET p == partitionArns(in.agents, ipToArn(in.tasks), 1, <<>>, <<>>)
      c3 == IF Len(p.busyArns) > 0
              THEN Append(c2, Call("SetTaskProtection", 0, p.busyArns, TRUE,
                                   ProtectionMinutes, in.enableErr))
              ELSE c2
  IN
  IF Len(p.busyArns) > 0 /\ in.enableErr
    THEN [calls |-> c3, err |-> TRUE]
  ELSE
  LET c4 == IF Len(p.idleArns) > 0
              THEN Append(c3, Call("SetTaskProtection", 0, p.idleArns, FALSE,
                                   0, in.disableErr))
              ELSE c3
  IN
  [calls |-> c4, err |-> Len(p.idleArns) > 0 /\ in.disableErr]

\* recordResult and the other nil-guarded recorder calls: with no recorder
\* configured nothing is recorded.
record(rec, m, event) == IF m THEN Append(rec, event) ELSE rec

recordResult(rec, m, success) ==
  record(rec, m, IF success THEN "result:success" ELSE "result:error")

RECURSIVE buildTaskIPs(_, _, _)
\* taskIPsFetcher, the supplier of a ServiceView's task IPs: a map[string]bool
\* holding true for the PrivateIP of every task that has one.
buildTaskIPs(tasks, i, ips) ==
  IF i > Len(tasks) THEN ips
  ELSE LET t == tasks[i]
           ips2 == IF t.PrivateIP # ""
                     THEN [ip \in (DOMAIN ips) \cup {t.PrivateIP} |-> TRUE]
                     ELSE ips
       IN  buildTaskIPs(tasks, i + 1, ips2)

taskIPsFetcher(tasks) == buildTaskIPs(tasks, 1, [ip \in {} |-> TRUE])

\* ips[agent.IP] on a map[string]bool: false for a key that is not there.
lookup(ips, ip) == ip \in DOMAIN ips /\ ips[ip]

RECURSIVE filterLoopKeepsAll(_, _, _, _)
filterLoopKeepsAll(allAgents, ips, i, filtered) ==
  IF i > Len(allAgents) THEN filtered
  ELSE filterLoopKeepsAll(allAgents, ips, i + 1, Append(filtered, allAgents[i]))

RECURSIVE filterLoop(_, _, _, _)
\* The loop of filteredAgents: an agent is kept when ips[agent.IP].
filterLoop(allAgents, ips, i, filtered) ==
  IF i > Len(allAgents) THEN filtered
  ELSE IF lookup(ips, allAgents[i].IP)
    THEN filterLoop(allAgents, ips, i + 1, Append(filtered, allAgents[i]))
    ELSE filterLoop(allAgents, ips, i + 1, filtered)

\* ServiceView.filteredAgents.  in: what the client's GetAgentDetails and
\* the task-IP supplier return.  Result: the agents kept, or an error.
filteredAgents(in) ==
  IF in.detailsErr \/ in.ipsErr THEN [agents |-> <<>>, err |-> TRUE]
  ELSE [agents |-> filterLoop(in.agents, in.ips, 1, <<>>), err |-> FALSE]

RECURSIVE countLoop(_, _, _, _, _)
\* The loop of ServiceView.GetAgentPoolStatus: busy and idle agents are
\* counted, also in total; any other status is not counted.
countLoop(agents, i, busy, idle, total) ==
  IF i > Len(agents) THEN [busy |-> busy, idle |-> idle, total |-> total, err |-> FALSE]
  ELSE IF agents[i].Status = "busy"
    THEN countLoop(agents, i + 1, busy + 1, idle, total + 1)
  ELSE IF agents[i].Status = "idle"
    THEN countLoop(agents, i + 1, busy, idle + 1, total + 1)
  ELSE countLoop(agents, i + 1, busy, idle, total)

\* ServiceView.GetAgentPoolStatus.
ServiceViewGetAgentPoolStatus(in) ==
  LET f == filteredAgents(in)
  IN  IF f.err THEN [busy |-> 0, idle |-> 0, total |-> 0, err |-> TRUE]
      ELSE countLoop(f.agents, 1, 0, 0, 0)

\* ServiceView.GetAgentDetails.
ServiceViewGetAgentDetails(in) == filteredAgents(in)

\* ExpiresInMinutes left nil in an UpdateTaskProtectionInput.
NoExpiry == -1

\* api.UpdateTaskProtection: a request that succeeds sets the protection of
\* its tasks; one that fails may or may not have done so (applied).
UpdateTaskProtection(state, req, applied) ==
  IF req.failed /\ ~applied THEN state
  ELSE [arn \in DOMAIN state |->
          IF \E j \in DOMAIN req.Tasks : req.Tasks[j] = arn
            THEN req.ProtectionEnabled ELSE state[arn]]

RECURSIVE batchLoopNoStop(_, _, _)
\* The loop goes on after a failed request.
batchLoopNoStop(in, i, acc) ==
  IF i >= Len(in.taskArns) THEN acc
  ELSE LET end == Min2(i + batchSize, Len(in.taskArns))
           req == [Tasks |-> SubSeq(in.taskArns, i + 1, end),
                   ProtectionEnabled |-> in.enabled,
                   ExpiresInMinutes |-> IF in.enabled /\ in.minutes > 0
                                          THEN in.minutes ELSE NoExpiry,
                   failed |-> Len(acc.requests) + 1 = in.failAt]
           sent == [requests |-> Append(acc.requests, req),
                    err |-> acc.err \/ req.failed,
                    state |-> UpdateTaskProtection(acc.state, req, in.failedApplied)]
       IN  batchLoopNoStop(in, i + batchSize, sent)

RECURSIVE batchLoopOneBatch(_, _, _)
\* Only the first batchSize handles are sent.
batchLoopOneBatch(in, i, acc) ==
  IF i >= Len(in.taskArns) \/ i > 0 THEN acc
  ELSE LET end == Min2(i + batchSize, Len(in.taskArns))
           req == [Tasks |-> SubSeq(in.taskArns, i + 1, end),
                   ProtectionEnabled |-> in.enabled,
                   ExpiresInMinutes |-> IF in.enabled /\ in.minutes > 0
                                          THEN in.minutes ELSE NoExpiry,
                   failed |-> Len(acc.requests) + 1 = in.failAt]
           sent == [requests |-> Append(acc.requests, req),
                    err |-> req.failed,
                    state |-> UpdateTaskProtection(acc.state, req, in.failedApplied)]
       IN  IF req.failed THEN sent
           ELSE batchLoopOneBatch(in, i + batchSize, sent)

RECURSIVE batchLoop(_, _, _)
\* The loop of ecs.Client.SetTaskProtection: taskArns[i:end] goes out in one
\* UpdateTaskProtection request (ExpiresInMinutes only when enabled and
\* expiresInMinutes > 0); the first failing request ends the loop with an
\* error.  i counts from 0 as in the code; the failAt-th request fails.
batchLoop(in, i, acc) ==
  IF i >= Len(in.taskArns) THEN acc
  ELSE LET end == Min2(i + batchSize, Len(in.taskArns))
           req == [Tasks |-> SubSeq(in.taskArns, i + 1, end),
                   ProtectionEnabled |-> in.enabled,
                   ExpiresInMinutes |-> IF in.enabled /\ in.minutes > 0
                                          THEN in.minutes ELSE NoExpiry,
                   failed |-> Len(acc.requests) + 1 = in.failAt]
           sent == [requests |-> Append(acc.requests, req),
                    err |-> req.failed,
                    state |-> UpdateTaskProtection(acc.state, req, in.failedApplied)]
       IN  IF req.failed THEN sent
           ELSE batchLoop(in, i + batchSize, sent)

\* ecs.Client.SetTaskProtection.  in: the arguments, the protection of the
\* tasks before the call (before) and how the remote call fails.  Result: the
\* requests sent, the error, and the protection of the tasks afterwards.
SetTaskProtection(in) ==
  batchLoop(in, 0, [requests |-> <<>>, err |-> FALSE, state |-> in.before])

\* RunType: RunTypePlan and RunTypeApply are iota 0 and 1.
RunTypePlan == 0

RunTypeApply == 1

\* PendingRunCounts{}.
NoCounts == [PlanPending |-> 0, ApplyPending |-> 0]

\* PendingRunCounts.Total.
Total(counts) == counts.PlanPending + counts.ApplyPending

RECURSIVE countsLoop(_, _, _)
\* The loop of Client.GetPendingRunsByType over the pool's workspaces: the
\* plan-pending runs of a workspace are counted, then its apply-pending
\* runs; the first failing count ends the loop with empty counts.
countsLoop(workspaces, i, counts) ==
  IF i > Len(workspaces) THEN [counts |-> counts, err |-> FALSE]
  ELSE LET ws == workspaces[i]
       IN  IF ws.err = "plan" THEN [counts |-> NoCounts, err |-> TRUE]
           ELSE IF ws.err = "apply" THEN [counts |-> NoCounts, err |-> TRUE]
           ELSE countsLoop(workspaces, i + 1,
                           [PlanPending |-> counts.PlanPending + ws.plan,
                            ApplyPending |-> counts.ApplyPending + ws.apply])

\* Client.GetPendingRunsByType.  in: whether reading the agent pool fails,
\* and per workspace its pending runs and which of its two counts fails.
GetPendingRunsByType(in) ==
  IF in.poolErr THEN [counts |-> NoCounts, err |-> TRUE]
  ELSE countsLoop(in.workspaces, 1, NoCounts)

\* Client.GetPendingRuns: the total of the counts by type.
ClientGetPendingRuns(in) ==
  LET r == GetPendingRunsByType(in)
  IN  IF r.err THEN [n |-> 0, err |-> TRUE]
      ELSE [n |-> Total(r.counts), err |-> FALSE]

\* Both views return the total.
ServiceViewGetPendingRunsTotal(runType, in) ==
  LET r == GetPendingRunsByType(in)
  IN  IF r.err THEN [n |-> 0, err |-> TRUE]
      ELSE [n |-> Total(r.counts), err |-> FALSE]

\* ServiceView.GetPendingRuns of a view with the given run type.
ServiceViewGetPendingRuns(runType, in) ==
  LET r == GetPendingRunsByType(in)
  IN  IF r.err THEN [n |-> 0, err |-> TRUE]
      ELSE IF runType = RunTypePlan THEN [n |-> r.counts.PlanPending, err |-> FALSE]
      ELSE IF runType = RunTypeApply THEN [n |-> r.counts.ApplyPending, err |-> FALSE]
      ELSE [n |-> 0, err |-> TRUE]

\* ------------------------------------------------------------------- state
\* The trace of one Reconcile invocation.  ret is "nil" or "error" once it
\* has returned; lastScale0 and prevDown are s.lastScaleTime and the last
\* scale-down write as the cycle found them; tCheck is the clock at the
\* cooldown check, tApply the clock at which SetDesiredCount took effect.
NoCycle ==
  [ret |-> "none", busy |-> 0, idle |-> 0, pending |-> 0,
   currentDesired |-> 0, desired |-> 0,
   calls |-> <<>>, recorded |-> <<>>,
   lastScale0 |-> 0, tCheck |-> 0, tApply |-> 0, prevDown |-> 0]

NoRun ==
  [ran |-> FALSE,
   in |-> [detailsErr |-> FALSE, agents |-> <<>>, tasksErr |-> FALSE,
           tasks |-> <<>>, enableErr |-> FALSE, disableErr |-> FALSE],
   out |-> [calls |-> <<>>, err |-> FALSE]]

\* Before Run is called: the context is live, no ticker exists, s.ready is
\* open (New: make(chan struct{})) and readyOnce has not fired.  closes
\* counts the close(s.ready) executed.
RunNotStarted ==
  [pc |-> "start", ctx |-> "live", tick |-> FALSE, ready |-> "open",
   readyOnce |-> FALSE, closes |-> 0, ret |-> "none"]

markReadyNoOnce(r) ==
  IF r.ready = "closed"
    THEN [r EXCEPT !.closes = @ + 1, !.pc = "panic"]
    ELSE [r EXCEPT !.closes = @ + 1, !.ready = "closed"]

\* Scaler.markReady: s.readyOnce.Do(func() { close(s.ready) }).  Closing a
\* closed channel panics.
markReady(r) ==
  IF r.readyOnce THEN r
  ELSE IF r.ready = "closed"
    THEN [r EXCEPT !.readyOnce = TRUE, !.closes = @ + 1, !.pc = "panic"]
    ELSE [r EXCEPT !.readyOnce = TRUE, !.closes = @ + 1, !.ready = "closed"]

\* No goroutine waits on Ready() and nobody has polled it.
NoWaiters == [waiting |-> 0, unblocked |-> 0, polled |-> "never"]

\* health.NewCompositeProbe over n ChannelProbes, each on a channel of its
\* own that is still open.  pc and i are the position of an IsReady call,
\* atCall the channels as they were when it was called, result what the
\* last finished call returned.
NewCompositeProbe(n) ==
  [probes |-> [k \in 1..n |-> "open"], pc |-> "idle", i |-> 0,
   atCall |-> <<>>, result |-> "none"]

NoProbe == NewCompositeProbe(0)

\* Of an earlier Reconcile invocation: its readings, its target, its reads, the count
\* it passed to SetDesiredCount (-1: no such call) and whether that call
\* succeeded.
NoPrev ==
  [ret |-> "none", busy |-> 0, idle |-> 0, pending |-> 0, currentDesired |-> 0,
   desired |-> 0, reads |-> <<>>, wrote |-> -1, wroteOk |-> FALSE]

\* No ServiceView query has run.
NoView ==
  [ran |-> FALSE,
   in |-> [detailsErr |-> FALSE, agents |-> <<>>, ipsErr |-> FALSE,
           ips |-> [ip \in {} |-> TRUE]],
   out |-> [pool |-> [busy |-> 0, idle |-> 0, total |-> 0, err |-> FALSE],
            details |-> [agents |-> <<>>, err |-> FALSE]],
   again |-> [ran |-> FALSE,
              in |-> [detailsErr |-> FALSE, agents |-> <<>>, ipsErr |-> FALSE,
                      ips |-> [ip \in {} |-> TRUE]],
              out |-> [agents |-> <<>>, err |-> FALSE]]]

\* No pending-run query has been made.
NoPend ==
  [ran |-> FALSE,
   in |-> [poolErr |-> FALSE, workspaces |-> <<>>],
   byType |-> [counts |-> NoCounts, err |-> FALSE],
   raw |-> [n |-> 0, err |-> FALSE],
   plan |-> [n |-> 0, err |-> FALSE],
   apply |-> [n |-> 0, err |-> FALSE],
   other |-> [n |-> 0, err |-> FALSE]]

\* No SetTaskProtection call has been made on the ECS client.
NoBatch ==
  [ran |-> FALSE,
   in |-> [taskArns |-> <<>>, enabled |-> FALSE, minutes |-> 0,
           before |-> [arn \in {} |-> FALSE], failAt |-> 0, failedApplied |-> FALSE],
   out |-> [requests |-> <<>>, err |-> FALSE, state |-> [arn \in {} |-> FALSE]]]

\* Before Run is called there is no ticker: period is pollInterval, next the
\* clock of the next tick, last the clock at which the latest Reconcile of
\* Run began and gap the clock units between the latest two (-1: fewer than
\* two have begun).
NoTicker == [period |-> 0, next |-> 0, last |-> 0, gap |-> -1]

\* Both Scalers on the ECS client of one service.
NewDualOneService(maxA, regular, spot) ==
  LET scaler(svc) ==
        [pc |-> "notStarted", ready |-> "open", readyOnce |-> FALSE, closes |-> 0,
         ret |-> "none", inflight |-> 0, svc |-> svc,
         minAgents |-> 0, maxAgents |-> maxA, cooldown |-> MaxCooldown,
         metrics |-> TRUE, lastScaleTime |-> 0]
  IN  [pc |-> "start", ctx |-> "live", wg |-> 0,
       ecs |-> [svc \in {"ECS_SERVICE", "ECS_SPOT_SERVICE"} |->
                  [desired |-> IF svc = "ECS_SERVICE" THEN regular ELSE spot,
                   protected |-> FALSE]],
       s |-> [k \in {"regular", "spot"} |-> scaler("ECS_SERVICE")]]

\* runDualService before it starts its goroutines: the context is live, the
\* WaitGroup is at 0, and the two Scalers are as New and SetMetrics leave
\* them, each on the ECS client of its own service, with maxA as maxAgents
\* and the services at the desired counts regular and spot.  Of a service,
\* desired is its desired count and protected whether the latest
\* SetTaskProtection it took enabled protection.  inflight counts the
\* Reconcile invocations of a Scaler that have not returned.
NewDual(maxA, regular, spot) ==
  LET scaler(svc) ==
        [pc |-> "notStarted", ready |-> "open", readyOnce |-> FALSE, closes |-> 0,
         ret |-> "none", inflight |-> 0, svc |-> svc,
         minAgents |-> 0, maxAgents |-> maxA, cooldown |-> MaxCooldown,
         metrics |-> TRUE, lastScaleTime |-> 0]
  IN  [pc |-> "start", ctx |-> "live", wg |-> 0,
       ecs |-> [svc \in {"ECS_SERVICE", "ECS_SPOT_SERVICE"} |->
                  [desired |-> IF svc = "ECS_SERVICE" THEN regular ELSE spot,
                   protected |-> FALSE]],
       s |-> [k \in {"regular", "spot"} |->
                scaler(IF k = "regular" THEN "ECS_SERVICE" ELSE "ECS_SPOT_SERVICE")]]

NoDual == NewDual(0, 0, 0)

\* No cycle has been kept for comparison.
NoTwin ==
  [stage |-> "none", ecs0 |-> 0, cycle |-> NoCycle, lastScaleTime |-> 0, now |-> 0]

Init ==
  /\ minAgents \in 0..MaxCfg
  /\ maxAgents \in minAgents..MaxCfg
  /\ cooldown \in 0..MaxCooldown
  /\ metrics \in BOOLEAN
  /\ lastScaleTime = 0
  /\ now = 1
  /\ ecsDesired \in 0..MaxDesired
  /\ lastDownApply = 0
  /\ cycle = NoCycle
  /\ protectRun = NoRun
  /\ run = RunNotStarted
  /\ waiters = NoWaiters
  /\ prev = NoPrev
  /\ probe = NoProbe
  /\ view = NoView
  /\ pend = NoPend
  /\ batch = NoBatch
  /\ twin = NoTwin
  /\ ticker = NoTicker
  /\ dual = NoDual

\* ------------------------------------------------- the phases of Reconcile
\* What the three reads of one cycle return.  A value that is never read
\* (a read after the failing one) is 0.
ReadOutcomes ==
  LET PoolOk == {[busy |-> b, idle |-> i] : b \in Counts, i \in Counts}
      Zero == [errPool |-> FALSE, busy |-> 0, idle |-> 0,
               errPending |-> FALSE, pending |-> 0, errService |-> FALSE]
  IN  {[Zero EXCEPT !.errPool = TRUE]}
      \cup {[Zero EXCEPT !.busy = p.busy, !.idle = p.idle, !.errPending = TRUE]
             : p \in PoolOk}
      \cup {[Zero EXCEPT !.busy = p.busy, !.idle = p.idle, !.pending = q,
                         !.errService = e]
             : p \in PoolOk, q \in Counts, e \in BOOLEAN}

\* The early return of a failed step: recordResult(false); return err.
fail(c, m) ==
  [c EXCEPT !.recorded = recordResult(@, m, FALSE), !.ret = "error"]

\* recordResult without its nil check: a nil recorder is dereferenced.
succeedNeedsSink(c, m) ==
  IF m THEN [c EXCEPT !.recorded = recordResult(@, m, TRUE), !.ret = "nil"]
  ELSE [c EXCEPT !.ret = "panic"]

\* The return of a cycle that ends well: recordResult(true); return nil.
succeed(c, m) ==
  [c EXCEPT !.recorded = recordResult(@, m, TRUE), !.ret = "nil"]

readPhaseSkipsPendingErr(c, rd, svcDesired, m) ==
  LET c1 == [c EXCEPT !.calls = Append(@, ReadCall("GetAgentPoolStatus", rd.errPool))]
  IN
  IF rd.errPool THEN fail(c1, m)
  ELSE
  LET c2 == [c1 EXCEPT !.busy = rd.busy, !.idle = rd.idle,
                       !.pending = rd.pending,
                       !.calls = Append(Append(@, ReadCall("GetPendingRuns", rd.errPending)),
                                        ReadCall("GetServiceStatus", rd.errService))]
  IN
  IF rd.errService THEN fail(c2, m)
  ELSE
  [c2 EXCEPT !.currentDesired = svcDesired, !.recorded = record(@, m, "gauge")]

\* The three reads and the gauge snapshot (RecordReconcile, the event
\* "gauge").  rd is what the remote calls return, svcDesired the service's
\* desired count at the time of the read.  total and currentRunning only go
\* to the log and the gauge and are left out.
readPhase(c, rd, svcDesired, m) ==
  LET c1 == [c EXCEPT !.calls = Append(@, ReadCall("GetAgentPoolStatus", rd.errPool))]
  IN
  IF rd.errPool THEN fail(c1, m)
  ELSE
  LET c2 == [c1 EXCEPT !.busy = rd.busy, !.idle = rd.idle,
                       !.calls = Append(@, ReadCall("GetPendingRuns", rd.errPending))]
  IN
  IF rd.errPending THEN fail(c2, m)
  ELSE
  LET c3 == [c2 EXCEPT !.pending = rd.pending,
                       !.calls = Append(@, ReadCall("GetServiceStatus", rd.errService))]
  IN
  IF rd.errService THEN fail(c3, m)
  ELSE
  [c3 EXCEPT !.currentDesired = svcDesired, !.recorded = record(@, m, "gauge")]

convergedNever(desired, currentDesired) == FALSE

\* The no-op test: desiredInt32 == currentDesired.
converged(desired, currentDesired) == desired = currentDesired

isScaleDownOrUp(desired, currentDesired) == desired # currentDesired

\* The branch condition of the scale-down policy: desiredInt32 < currentDesired.
isScaleDown(desired, currentDesired) == desired < currentDesired

\* RecordCooldownSkip without the recordResult that follows it.
cooldownSkipNoResult(c, m) ==
  [c EXCEPT !.recorded = record(@, m, "cooldown_skip"), !.ret = "nil"]

\* The cooldown skip: RecordCooldownSkip(); recordResult(true); return nil.
cooldownSkip(c, m) ==
  succeed([c EXCEPT !.recorded = record(@, m, "cooldown_skip")], m)

\* The trace of a cycle keeps, of a protection call, the number of task
\* handles in place of the handles.
summary(calls) ==
  [i \in DOMAIN calls |-> [calls[i] EXCEPT !.count = Len(calls[i].arns), !.arns = <<>>]]

protectPhaseFatal(c, p, m) ==
  LET c1 == [c EXCEPT !.calls = @ \o p.calls]
  IN  IF p.err THEN fail(c1, m) ELSE c1

\* The call of protectBusyTasks from Reconcile: a failure is logged and
\* counted, and the cycle goes on.  p is the result of protectBusyTasks.
protectPhase(c, p, m) ==
  LET c1 == [c EXCEPT !.calls = @ \o p.calls]
  IN  IF p.err THEN [c1 EXCEPT !.recorded = record(@, m, "protection_error")]
      ELSE c1

applyPhaseStampsFirst(c, v, setErr, m, last, tApply, tStamp) ==
  LET direction == IF v < c.currentDesired THEN "down" ELSE "up"
      c1 == [c EXCEPT !.calls = Append(@, Call("SetDesiredCount", v, <<>>, FALSE, 0, setErr)),
                      !.tApply = tApply]
  IN  IF setErr
        THEN [c |-> fail(c1, m), lastScaleTime |-> tStamp]
        ELSE [c |-> succeed([c1 EXCEPT !.recorded = record(@, m, "scale:" \o direction)], m),
              lastScaleTime |-> tStamp]

\* Only a scale-down stamps lastScaleTime.
applyPhaseStampsDownOnly(c, v, setErr, m, last, tApply, tStamp) ==
  LET direction == IF v < c.currentDesired THEN "down" ELSE "up"
      c1 == [c EXCEPT !.calls = Append(@, Call("SetDesiredCount", v, <<>>, FALSE, 0, setErr)),
                      !.tApply = tApply]
  IN  IF setErr
        THEN [c |-> fail(c1, m), lastScaleTime |-> last]
        ELSE [c |-> succeed([c1 EXCEPT !.recorded = record(@, m, "scale:" \o direction)], m),
              lastScaleTime |-> IF direction = "down" THEN tStamp ELSE last]

\* The write: SetDesiredCount(v); on error recordResult(false) and return,
\* else RecordScaleEvent(direction), s.lastScaleTime = time.Now(),
\* recordResult(true).  Result: the trace and the new s.lastScaleTime.
applyPhase(c, v, setErr, m, last, tApply, tStamp) ==
  LET direction == IF v < c.currentDesired THEN "down" ELSE "up"
      c1 == [c EXCEPT !.calls = Append(@, Call("SetDesiredCount", v, <<>>, FALSE, 0, setErr)),
                      !.tApply = tApply]
  IN  IF setErr
        THEN [c |-> fail(c1, m), lastScaleTime |-> last]
        ELSE [c |-> succeed([c1 EXCEPT !.recorded = record(@, m, "scale:" \o direction)], m),
              lastScaleTime |-> tStamp]

\* What the remote calls of protectBusyTasks return.  A call that is not
\* made has no outcome: its error flag is FALSE.
ProtectOutcomes ==
  LET Zero == [detailsErr |-> FALSE, agents |-> <<>>, tasksErr |-> FALSE,
               tasks |-> <<>>, enableErr |-> FALSE, disableErr |-> FALSE]
  IN  {[Zero EXCEPT !.detailsErr = TRUE]}
      \cup {[Zero EXCEPT !.agents = a, !.tasksErr = TRUE] : a \in AgentLists}
      \cup {[Zero EXCEPT !.agents = a, !.tasks = t, !.enableErr = e, !.disableErr = d]
             : a \in AgentLists, t \in TaskLists, e \in BOOLEAN, d \in BOOLEAN}

\* Every way protectBusyTasks can go.
ProtectResults == {protectBusyTasks(pin) : pin \in ProtectOutcomes}

\* Every way protectBusyTasks can go, as the trace of a cycle keeps it.
ProtectSummaries ==
  {[calls |-> summary(p.calls), err |-> p.err] : p \in ProtectResults} \cup {}

\* ----------------------------------------------------------------- actions
\* The end of a cycle: the trace is published, the scaler keeps last.
Finish(c, last, t) ==
  /\ cycle' = c
  /\ lastScaleTime' = last
  /\ now' = t

\* What a SetDesiredCount call can do: fail or not, take lat clock units,
\* and take effect on the service when it arrives or when it returns.
WriteOutcomes ==
  [setErr : BOOLEAN, lat : 0..MaxLatency, atReturn : BOOLEAN]

\* The write and what follows it.  The call takes lat clock units; the
\* service takes the new count over at tApply, when the call arrives or when
\* it returns, and time.Now() is read after the return.
Apply(c, v, Writes) ==
  \E wr \in Writes :
    LET setErr == wr.setErr
        tStamp == now + wr.lat
        tApply == IF wr.atReturn THEN tStamp ELSE now
        w == applyPhase(c, v, setErr, metrics, lastScaleTime, tApply, tStamp)
    IN  /\ tStamp <= MaxTime
        /\ Finish(w.c, w.lastScaleTime, tStamp)
        /\ ecsDesired' = IF setErr THEN ecsDesired ELSE v
        /\ lastDownApply' = IF ~setErr /\ v < c.currentDesired
                              THEN tApply ELSE lastDownApply

\* A cycle that ends without a write.
Return(c) ==
  /\ Finish(c, lastScaleTime, now)
  /\ UNCHANGED <<ecsDesired, lastDownApply>>

\* The body of Scaler.Reconcile, one check-and-scale cycle, with the
\* three reads returning one of Reads, protectBusyTasks going one of the
\* ways Prots and SetDesiredCount one of the ways Writes.
ReconcileFrom(Reads, Prots, Writes) ==
  /\ cycle.ret = "none"
  /\ \E rd \in Reads :
    LET c0 == [NoCycle EXCEPT !.lastScale0 = lastScaleTime, !.tCheck = now,
                              !.prevDown = lastDownApply]
        r == readPhase(c0, rd, ecsDesired, metrics)
        desired == computeDesired(r.pending, r.busy, minAgents, maxAgents)
        c == [r EXCEPT !.desired = desired]
    IN
    /\ UNCHANGED <<config, metrics>>
    /\ IF r.ret = "error" THEN Return(r)
       ELSE IF converged(desired, c.currentDesired) THEN Return(succeed(c, metrics))
       ELSE IF isScaleDown(desired, c.currentDesired)
         THEN IF cooldownActive(lastScaleTime, now, cooldown)
                THEN Return(cooldownSkip(c, metrics))
                ELSE LET guarded == idleGuard(c.currentDesired, desired, c.idle)
                     IN  IF guarded = c.currentDesired
                           THEN Return(succeed(c, metrics))
                           ELSE \E p \in Prots :
                                  LET c5 == protectPhase(c, p, metrics)
                                  IN  IF c5.ret = "error" THEN Return(c5)
                                      ELSE Apply(c5, guarded, Writes)
         ELSE Apply(c, desired, Writes)

\* Scaler.Reconcile with the reads returning one of Reads and the other
\* calls whatever they can return.
ReconcileWith(Reads) == ReconcileFrom(Reads, ProtectSummaries, WriteOutcomes)

\* Scaler.Reconcile with the reads returning whatever they can return.
ReconcileCycle == ReconcileWith(ReadOutcomes)

ReconcileMarksReady ==
  /\ ReconcileCycle
  /\ run' = IF cycle'.ret = "nil" THEN markReady(run) ELSE run
  /\ UNCHANGED <<protectRun, waiters, prev, probe, view, pend, batch, twin,
                 ticker, dual>>

\* Scaler.Reconcile called directly, outside Run: it touches neither the
\* ready channel nor anything of the Run loop.
Reconcile ==
  /\ ReconcileCycle
  /\ UNCHANGED <<protectRun, run, waiters, prev, probe, view, pend, batch, twin,
                 ticker, dual>>

\* Wall time passes between cycles.
Tick ==
  /\ cycle.ret = "none"
  /\ now < MaxTime
  /\ now' = now + 1
  /\ UNCHANGED <<config, metrics, lastScaleTime, ecsDesired, lastDownApply, cycle,
                 protectRun, run, waiters, prev, probe, view,
                 pend, batch, twin,
                 ticker, dual>>

\* Somebody else (an operator, a deployment) sets the service's desired count.
ServiceDrift ==
  /\ cycle.ret = "none"
  /\ \E n \in 0..MaxDesired : n # ecsDesired /\ ecsDesired' = n
  /\ UNCHANGED <<config, metrics, lastScaleTime, now, lastDownApply, cycle,
                 protectRun, run, waiters, prev, probe, view,
                 pend, batch, twin,
                 ticker, dual>>

\* The locals of a finished invocation are gone: its trace is dropped before
\* the next cycle, a clock tick or a drift of the service.
Forget ==
  /\ cycle.ret # "none"
  /\ cycle' = NoCycle
  /\ UNCHANGED <<config, metrics, lastScaleTime, now, ecsDesired, lastDownApply,
                 protectRun, run, waiters, prev, probe, view,
                 pend, batch, twin,
                 ticker, dual>>

Next == Reconcile \/ Forget \/ Tick \/ ServiceDrift

Spec == Init /\ [][Next]_vars

\* ------------------------------------- protectBusyTasks run on its own
\* The scaler fields play no part in protectBusyTasks; they are pinned.
InitProtect ==
  /\ Init
  /\ minAgents = 0
  /\ maxAgents = MaxCfg
  /\ cooldown = 0
  /\ metrics
  /\ ecsDesired = 0

\* Scaler.protectBusyTasks on every agent list, task list and call outcome.
ProtectBusyTasks ==
  /\ ~protectRun.ran
  /\ \E pin \in ProtectOutcomes :
       protectRun' = [ran |-> TRUE, in |-> pin, out |-> protectBusyTasks(pin)]
  /\ UNCHANGED <<config, metrics, lastScaleTime, now, ecsDesired, lastDownApply,
                 cycle, run, waiters, prev, probe, view, pend, batch, twin,
                 ticker, dual>>

\* The locals of a finished call are gone: what was kept of a call made on
\* its own, or of a cycle and the calls below it, is dropped before the next.
ForgetQuery ==
  /\ protectRun.ran \/ view.ran \/ pend.ran \/ batch.ran \/ cycle.ret # "none"
  /\ protectRun' = NoRun
  /\ view' = NoView
  /\ pend' = NoPend
  /\ batch' = NoBatch
  /\ cycle' = NoCycle
  /\ UNCHANGED <<config, metrics, lastScaleTime, now, ecsDesired, lastDownApply,
                 run, waiters, prev, probe, twin,
                 ticker, dual>>

NextProtect == ProtectBusyTasks \/ ForgetQuery

SpecProtect == InitProtect /\ [][NextProtect]_vars

\* ---------------------------------------------------------- Scaler.Run
\* The policy fields play no part in the Run loop; they are pinned.
InitRun ==
  /\ Init
  /\ minAgents = 0
  /\ maxAgents = MaxCfg
  /\ cooldown = 0
  /\ ~metrics

\* Positions of Run at which a Reconcile it invoked has just returned.
Returned == {"firstDone", "tickDone"}

\* The context of Run is cancelled; this may happen before Run is called.
Cancel ==
  /\ run.ctx = "live"
  /\ run.pc \notin {"returned", "panic"}
  /\ run' = [run EXCEPT !.ctx = "cancelled"]
  /\ UNCHANGED <<config, metrics, lastScaleTime, now, ecsDesired, lastDownApply,
                 cycle, protectRun, waiters, prev, probe, view,
                 pend, batch, twin,
                 ticker, dual>>

\* A caller other than Run invokes Reconcile before Run is started.
DirectReconcile == run.pc = "start" /\ Reconcile

\* The trace of a direct call is dropped before the next call or Run.
DirectForget == run.pc = "start" /\ Forget

\* Run is called: time.NewTicker, then the immediate Reconcile.
RunStart ==
  /\ run.pc = "start"
  /\ ReconcileCycle
  /\ run' = [run EXCEPT !.pc = "firstDone"]
  /\ UNCHANGED <<protectRun, waiters, prev, probe, view, pend, batch, twin,
                 ticker, dual>>

\* The ticker delivers a tick; ticker.C holds one tick at most.
TickerFires ==
  /\ run.pc \in Returned \cup {"select"}
  /\ ~run.tick
  /\ run' = [run EXCEPT !.tick = TRUE]
  /\ UNCHANGED <<config, metrics, lastScaleTime, now, ecsDesired, lastDownApply,
                 cycle, protectRun, waiters, prev, probe, view,
                 pend, batch, twin,
                 ticker, dual>>

afterReconcileStopsOnError(r, ret) ==
  IF ret = "nil" THEN [markReady(r) EXCEPT !.pc = IF @ = "panic" THEN @ ELSE "select"]
  ELSE [r EXCEPT !.pc = "returned", !.ret = "reconcile error"]

afterReconcileSkipsReady(r, ret) == [r EXCEPT !.pc = "select"]

afterReconcileAlwaysReady(r, ret) ==
  [markReady(r) EXCEPT !.pc = IF @ = "panic" THEN @ ELSE "select"]

\* What Run does with the result of a Reconcile: an error is logged, nil
\* calls markReady; then the loop goes to its select.
afterReconcile(r, ret) ==
  IF ret = "nil" THEN [markReady(r) EXCEPT !.pc = IF @ = "panic" THEN @ ELSE "select"]
  ELSE [r EXCEPT !.pc = "select"]

\* Run takes the result of the Reconcile it invoked.
RunAfter ==
  /\ run.pc \in Returned
  /\ run' = afterReconcile(run, cycle.ret)
  /\ cycle' = NoCycle
  /\ UNCHANGED <<config, metrics, lastScaleTime, now, ecsDesired, lastDownApply,
                 protectRun, waiters, prev, probe, view, pend, batch, twin,
                 ticker, dual>>

\* select, case <-ctx.Done(): return ctx.Err() (the deferred ticker.Stop
\* runs).  When a tick is pending too, select takes either case.
SelectDone ==
  /\ run.pc = "select"
  /\ run.ctx = "cancelled"
  /\ run' = [run EXCEPT !.pc = "returned", !.ret = "ctx.Err", !.tick = FALSE]
  /\ UNCHANGED <<config, metrics, lastScaleTime, now, ecsDesired, lastDownApply,
                 cycle, protectRun, waiters, prev, probe, view,
                 pend, batch, twin,
                 ticker, dual>>

\* select, case <-ticker.C: the next Reconcile.
SelectTick ==
  /\ run.pc = "select"
  /\ run.tick
  /\ ReconcileCycle
  /\ run' = [run EXCEPT !.pc = "tickDone", !.tick = FALSE]
  /\ UNCHANGED <<protectRun, waiters, prev, probe, view, pend, batch, twin,
                 ticker, dual>>

\* A goroutine starts to receive from Ready().
Wait ==
  /\ waiters.waiting + waiters.unblocked < MaxWaiters
  /\ waiters' = [waiters EXCEPT !.waiting = @ + 1]
  /\ UNCHANGED <<config, metrics, lastScaleTime, now, ecsDesired, lastDownApply,
                 cycle, protectRun, run, prev, probe, view, pend, batch, twin,
                 ticker, dual>>

\* A receive from a closed channel returns; from an open one it blocks.
Receive ==
  /\ waiters.waiting > 0
  /\ run.ready = "closed"
  /\ waiters' = [waiters EXCEPT !.waiting = @ - 1, !.unblocked = @ + 1]
  /\ UNCHANGED <<config, metrics, lastScaleTime, now, ecsDesired, lastDownApply,
                 cycle, protectRun, run, prev, probe, view, pend, batch, twin,
                 ticker, dual>>

\* A non-blocking look at Ready(): select { case <-s.Ready(): default: }.
Poll ==
  /\ waiters' = [waiters EXCEPT !.polled = run.ready]
  /\ UNCHANGED <<config, metrics, lastScaleTime, now, ecsDesired, lastDownApply,
                 cycle, protectRun, run, prev, probe, view, pend, batch, twin,
                 ticker, dual>>

NextRun ==
  \/ DirectReconcile \/ DirectForget \/ Cancel \/ RunStart \/ TickerFires
  \/ RunAfter \/ SelectDone \/ SelectTick

SpecRun == InitRun /\ [][NextRun]_vars

\* ------------------------------------- Scaler.Run and the users of Ready()
\* The latch does not depend on what a cycle writes: the Scaler has
\* maxAgents = 0 on an empty service, so its cycles fail a read or converge.
InitReady ==
  /\ Init
  /\ minAgents = 0
  /\ maxAgents = 0
  /\ cooldown = 0
  /\ ~metrics
  /\ ecsDesired = 0

NextReady ==
  \/ Cancel \/ RunStart \/ TickerFires \/ RunAfter \/ SelectDone \/ SelectTick
  \/ Wait \/ Receive \/ Poll

SpecReady == InitReady /\ [][NextReady]_vars

\* The Go scheduler runs every runnable goroutine: Run goes on after a
\* Reconcile returns, and a receive that can return does.
SpecLive == SpecReady /\ WF_vars(RunAfter) /\ WF_vars(Receive)

\* ------------------------------------------- Scaler.Run under its ticker
\* Run calls Reconcile: at its start, right after time.NewTicker with a
\* pollInterval of p clock units, or in its select on a tick waiting in
\* ticker.C.  The clock at which the call begins is kept.  The cycle's
\* remote calls are made at that clock; the call returns to Run (RunAfter)
\* then or later.
TimedReconcile ==
  /\ \/ /\ run.pc = "start"
        /\ run' = [run EXCEPT !.pc = "firstDone"]
        /\ \E p \in 1..MaxPoll :
             ticker' = [period |-> p, next |-> now + p, last |-> now, gap |-> -1]
     \/ /\ run.pc = "select"
        /\ run.tick
        /\ run' = [run EXCEPT !.pc = "tickDone", !.tick = FALSE]
        /\ ticker' = [ticker EXCEPT !.last = now, !.gap = now - ticker.last]
  /\ ReconcileFrom(ReadOutcomes, ProtectSummaries,
                   {w \in WriteOutcomes : w.lat = 0 /\ ~w.atReturn})
  /\ UNCHANGED <<protectRun, waiters, prev, probe, view, pend, batch, twin, dual>>

\* A clock unit passes, while Reconcile is running or while Run waits in
\* its select.  When the clock reaches the ticker's next time the ticker
\* sends on ticker.C, a channel with room for one tick: the tick is dropped
\* if one is waiting there; the time after is one period later.
TimePasses ==
  /\ run.pc \in Returned \cup {"select"}
  /\ now < MaxRunTime
  /\ now' = now + 1
  /\ IF now + 1 = ticker.next
       THEN /\ run' = [run EXCEPT !.tick = TRUE]
            /\ ticker' = [ticker EXCEPT !.next = @ + ticker.period]
       ELSE UNCHANGED <<run, ticker>>
  /\ UNCHANGED <<config, metrics, lastScaleTime, ecsDesired, lastDownApply, cycle,
                 protectRun, waiters, prev, probe, view, pend, batch, twin, dual>>

NextTicks == TimedReconcile \/ TimePasses \/ RunAfter

SpecTicks == InitReady /\ [][NextTicks]_vars

\* ------------------------------------------------------- runDualService
\* Scaler.Reconcile of the Scaler sc at clock t, as a function: the service
\* of sc has the desired count svcDesired, the reads return rd,
\* protectBusyTasks goes the way p and SetDesiredCount the way wr.  Result:
\* the trace of the cycle and the new sc.lastScaleTime.
reconcile(sc, t, svcDesired, rd, p, wr) ==
  LET m == sc.metrics
      c0 == [NoCycle EXCEPT !.lastScale0 = sc.lastScaleTime, !.tCheck = t]
      r == readPhase(c0, rd, svcDesired, m)
      desired == computeDesired(r.pending, r.busy, sc.minAgents, sc.maxAgents)
      c == [r EXCEPT !.desired = desired]
      return(x) == [c |-> x, lastScaleTime |-> sc.lastScaleTime]
      apply(x, v) == applyPhase(x, v, wr.setErr, m, sc.lastScaleTime, t, t)
  IN  IF r.ret = "error" THEN return(r)
      ELSE IF converged(desired, c.currentDesired) THEN return(succeed(c, m))
      ELSE IF isScaleDown(desired, c.currentDesired)
        THEN IF cooldownActive(sc.lastScaleTime, t, sc.cooldown)
               THEN return(cooldownSkip(c, m))
               ELSE LET guarded == idleGuard(c.currentDesired, desired, c.idle)
                    IN  IF guarded = c.currentDesired
                          THEN return(succeed(c, m))
                          ELSE LET c5 == protectPhase(c, p, m)
                               IN  IF c5.ret = "error" THEN return(c5)
                                   ELSE apply(c5, guarded)
        ELSE apply(c, desired)

\* What the calls of a cycle leave of the service they are sent to.
RECURSIVE serve(_, _, _)
serve(svc, calls, i) ==
  IF i > Len(calls) THEN svc
  ELSE LET k == calls[i]
       IN  serve(IF k.failed THEN svc
                 ELSE IF k.op = "SetDesiredCount" THEN [svc EXCEPT !.desired = k.count]
                 ELSE IF k.op = "SetTaskProtection" THEN [svc EXCEPT !.protected = k.enabled]
                 ELSE svc,
                 calls, i + 1)

\* The two Scalers of runDualService on services at any desired counts; the
\* single Scaler's variables play no part.
InitDual ==
  /\ minAgents = 0 /\ maxAgents = MaxCfg /\ cooldown = 0 /\ metrics = FALSE
  /\ lastScaleTime = 0 /\ now = 1 /\ ecsDesired = 0 /\ lastDownApply = 0
  /\ cycle = NoCycle /\ protectRun = NoRun /\ run = RunNotStarted
  /\ waiters = NoWaiters /\ prev = NoPrev /\ probe = NoProbe /\ view = NoView
  /\ pend = NoPend /\ batch = NoBatch /\ twin = NoTwin /\ ticker = NoTicker
  /\ dual \in {NewDual(MaxCfg, a, b) : a, b \in 0..MaxDesired}

\* wg.Add(2) and the two go statements: each goroutine calls Run of its
\* Scaler with the context of runDualService.
DualGo ==
  /\ cycle.ret = "none"
  /\ dual.pc = "start"
  /\ dual' = [dual EXCEPT !.pc = "wait", !.wg = 2,
                          !.s = [k \in DOMAIN @ |-> [@[k] EXCEPT !.pc = "go"]]]
  /\ UNCHANGED <<config, metrics, lastScaleTime, now, ecsDesired, lastDownApply,
                 cycle, protectRun, run, waiters, prev, probe, view, pend, batch,
                 twin, ticker>>

\* The context is cancelled (SIGTERM, SIGINT), before or after the goroutines start.
DualCancel ==
  /\ cycle.ret = "none"
  /\ dual.ctx = "live"
  /\ dual.pc # "returned"
  /\ dual' = [dual EXCEPT !.ctx = "cancelled"]
  /\ UNCHANGED <<config, metrics, lastScaleTime, now, ecsDesired, lastDownApply,
                 cycle, protectRun, run, waiters, prev, probe, view, pend, batch,
                 twin, ticker>>

\* The select starts Reconcile in a goroutine of its own (go s.Reconcile)
\* and goes on.
DualReconcileBeginAsync ==
  /\ cycle.ret = "none"
  /\ \E k \in DOMAIN dual.s :
       /\ dual.s[k].pc \in {"go", "select", "tick"}
       /\ dual' = [dual EXCEPT
                     ![ "s" ][k].pc = IF dual.s[k].pc = "go" THEN "first" ELSE "tick",
                     ![ "s" ][k].inflight = @ + 1]
  /\ UNCHANGED <<config, metrics, lastScaleTime, now, ecsDesired, lastDownApply,
                 cycle, protectRun, run, waiters, prev, probe, view, pend, batch,
                 twin, ticker>>

\* Run of a Scaler calls Reconcile: at its start, or in its select on a tick.
DualReconcileBegin ==
  /\ cycle.ret = "none"
  /\ \E k \in DOMAIN dual.s :
       /\ dual.s[k].pc \in {"go", "select"}
       /\ dual' = [dual EXCEPT
                     ![ "s" ][k].pc = IF dual.s[k].pc = "go" THEN "first" ELSE "tick",
                     ![ "s" ][k].inflight = @ + 1]
  /\ UNCHANGED <<config, metrics, lastScaleTime, now, ecsDesired, lastDownApply,
                 cycle, protectRun, run, waiters, prev, probe, view, pend, batch,
                 twin, ticker>>

\* A Reconcile that is in flight makes its calls, on the ECS client of its
\* Scaler's own service, and returns to Run, which marks the Scaler ready on
\* nil and goes to its select.  The reads fail at the first call or return
\* counts of 0 or 1; protectBusyTasks names one task per call at most.
DualReconcileEnd ==
  /\ cycle.ret = "none"
  /\ \E k \in DOMAIN dual.s,
        rd \in {r \in ReadOutcomes : ~r.errPending /\ ~r.errService
                                        /\ r.busy <= 1 /\ r.idle <= 1 /\ r.pending <= 1},
        p \in {q \in ProtectSummaries : \A i \in DOMAIN q.calls : q.calls[i].count <= 1},
        wr \in {w \in WriteOutcomes : w.lat = 0 /\ ~w.atReturn} :
       LET sc == dual.s[k]
           res == reconcile(sc, now, dual.ecs[sc.svc].desired, rd, p, wr)
           after == afterReconcile(sc, res.c.ret)
       IN  /\ sc.pc \in {"first", "tick"}
           /\ cycle' = res.c
           /\ dual' = [dual EXCEPT
                         ![ "s" ][k] = [after EXCEPT !.inflight = @ - 1,
                                                    !.lastScaleTime = res.lastScaleTime],
                         ![ "ecs" ][sc.svc] = serve(@, res.c.calls, 1)]
  /\ UNCHANGED <<config, metrics, lastScaleTime, now, ecsDesired, lastDownApply,
                 protectRun, run, waiters, prev, probe, view, pend, batch,
                 twin, ticker>>

\* select, case <-ctx.Done() in Run of a Scaler: return ctx.Err().
DualSelectDone ==
  /\ cycle.ret = "none"
  /\ dual.ctx = "cancelled"
  /\ \E k \in DOMAIN dual.s :
       /\ dual.s[k].pc = "select"
       /\ dual' = [dual EXCEPT ![ "s" ][k].pc = "returned", ![ "s" ][k].ret = "ctx.Err"]
  /\ UNCHANGED <<config, metrics, lastScaleTime, now, ecsDesired, lastDownApply,
                 cycle, protectRun, run, waiters, prev, probe, view, pend, batch,
                 twin, ticker>>

\* Run has returned to its goroutine, which logs and ends: defer wg.Done().
DualDone ==
  /\ cycle.ret = "none"
  /\ \E k \in DOMAIN dual.s :
       /\ dual.s[k].pc = "returned"
       /\ dual' = [dual EXCEPT ![ "s" ][k].pc = "done", !.wg = @ - 1]
  /\ UNCHANGED <<config, metrics, lastScaleTime, now, ecsDesired, lastDownApply,
                 cycle, protectRun, run, waiters, prev, probe, view, pend, batch,
                 twin, ticker>>

\* runDualService returns without wg.Wait().
DualWaitNoWait ==
  /\ cycle.ret = "none"
  /\ dual.pc = "wait"
  /\ dual' = [dual EXCEPT !.pc = "returned"]
  /\ UNCHANGED <<config, metrics, lastScaleTime, now, ecsDesired, lastDownApply,
                 cycle, protectRun, run, waiters, prev, probe, view, pend, batch,
                 twin, ticker>>

\* wg.Wait() returns when the counter is 0, and runDualService returns.
DualWait ==
  /\ cycle.ret = "none"
  /\ dual.pc = "wait"
  /\ dual.wg = 0
  /\ dual' = [dual EXCEPT !.pc = "returned"]
  /\ UNCHANGED <<config, metrics, lastScaleTime, now, ecsDesired, lastDownApply,
                 cycle, protectRun, run, waiters, prev, probe, view, pend, batch,
                 twin, ticker>>

NextDual ==
  \/ DualGo \/ DualCancel \/ DualReconcileBegin \/ DualReconcileEnd
  \/ DualSelectDone \/ DualDone \/ DualWait \/ Forget

\* The Go scheduler runs every goroutine that can run and a remote call in
\* flight returns: no goroutine stays for ever before its first Reconcile,
\* inside a Reconcile or before its deferred wg.Done, and wg.Wait does not
\* stay blocked on a counter of 0.  A select with several ready cases takes
\* each of them with equal chance, so a case that is ready each time Run is
\* back in its select is taken in the end.
SpecDual ==
  /\ InitDual /\ [][NextDual]_vars
  /\ WF_vars(DualGo) /\ WF_vars(Forget)
  /\ SF_vars(DualSelectDone)
  /\ \A k \in {"regular", "spot"} :
       []<>(dual.s[k].pc \notin {"go", "first", "tick", "returned"})
  /\ []<>(dual.pc # "wait" \/ dual.wg # 0)

\* ------------------------------------------------- health.CompositeProbe
\* A probe over 0..MaxProbes channels; main.go builds it over the two
\* scalers' Ready() channels.  The scaler fields play no part.
InitProbe ==
  /\ minAgents = 0 /\ maxAgents = MaxCfg /\ cooldown = 0 /\ metrics = FALSE
  /\ lastScaleTime = 0 /\ now = 1 /\ ecsDesired = 0 /\ lastDownApply = 0
  /\ cycle = NoCycle /\ protectRun = NoRun /\ run = RunNotStarted
  /\ waiters = NoWaiters /\ prev = NoPrev /\ view = NoView
  /\ pend = NoPend /\ batch = NoBatch /\ twin = NoTwin
  /\ ticker = NoTicker /\ dual = NoDual
  /\ probe \in {NewCompositeProbe(n) : n \in 0..MaxProbes}

\* ChannelProbe.IsReady: select { case <-p.ch: true; default: false }.
ChannelProbeIsReady(ch) == ch = "closed"

isReadyStepAny(p) ==
  IF p.i > Len(p.probes) THEN [p EXCEPT !.pc = "idle", !.result = "false"]
  ELSE IF ChannelProbeIsReady(p.probes[p.i])
    THEN [p EXCEPT !.pc = "idle", !.result = "true"]
    ELSE [p EXCEPT !.i = @ + 1]

\* One turn of the loop of CompositeProbe.IsReady:
\* for _, p := range c.probes { if !p.IsReady() { return false } }; return true.
isReadyStep(p) ==
  IF p.i > Len(p.probes) THEN [p EXCEPT !.pc = "idle", !.result = "true"]
  ELSE IF ~ChannelProbeIsReady(p.probes[p.i])
    THEN [p EXCEPT !.pc = "idle", !.result = "false"]
    ELSE [p EXCEPT !.i = @ + 1]

\* The health server calls CompositeProbe.IsReady.
IsReadyCall ==
  /\ probe.pc = "idle"
  /\ probe' = [probe EXCEPT !.pc = "loop", !.i = 1, !.atCall = probe.probes]
  /\ UNCHANGED <<config, metrics, lastScaleTime, now, ecsDesired, lastDownApply,
                 cycle, protectRun, run, waiters, prev, view,
                 pend, batch, twin,
                 ticker, dual>>

IsReadyStep ==
  /\ probe.pc = "loop"
  /\ probe' = isReadyStep(probe)
  /\ UNCHANGED <<config, metrics, lastScaleTime, now, ecsDesired, lastDownApply,
                 cycle, protectRun, run, waiters, prev, view,
                 pend, batch, twin,
                 ticker, dual>>

\* The scaler behind channel k latches: markReady closes its channel, at
\* any moment, also while IsReady is running.
CloseChannel ==
  /\ \E k \in DOMAIN probe.probes :
       /\ probe.probes[k] = "open"
       /\ probe' = [probe EXCEPT !.probes[k] = "closed"]
  /\ UNCHANGED <<config, metrics, lastScaleTime, now, ecsDesired, lastDownApply,
                 cycle, protectRun, run, waiters, prev, view,
                 pend, batch, twin,
                 ticker, dual>>

NextProbe == IsReadyCall \/ IsReadyStep \/ CloseChannel

SpecProbe == InitProbe /\ [][NextProbe]_vars

\* ------------------------------------------------------- tfc.ServiceView
\* The scaler fields play no part in a ServiceView; they are pinned.
InitView ==
  /\ Init
  /\ minAgents = 0
  /\ maxAgents = MaxCfg
  /\ cooldown = 0
  /\ metrics
  /\ ecsDesired = 0

\* What the client and the task-IP supplier of a ServiceView return.  A call
\* that is not made has no outcome.
ViewOutcomes ==
  LET Zero == [detailsErr |-> FALSE, agents |-> <<>>, ipsErr |-> FALSE,
               ips |-> [ip \in {} |-> TRUE]]
  IN  {[Zero EXCEPT !.detailsErr = TRUE]}
      \cup {[Zero EXCEPT !.agents = a, !.ipsErr = TRUE] : a \in AgentLists}
      \cup {[Zero EXCEPT !.agents = a, !.ips = taskIPsFetcher(t)]
             : a \in AgentLists, t \in TaskLists}

\* GetAgentPoolStatus and GetAgentDetails of a ServiceView, on every agent
\* list and every task-IP map.
ServiceViewQuery ==
  /\ ~view.ran
  /\ \E vin \in ViewOutcomes :
       view' = [NoView EXCEPT
                  !.ran = TRUE, !.in = vin,
                  !.out = [pool |-> ServiceViewGetAgentPoolStatus(vin),
                           details |-> ServiceViewGetAgentDetails(vin)]]
  /\ UNCHANGED <<config, metrics, lastScaleTime, now, ecsDesired, lastDownApply,
                 cycle, protectRun, run, waiters, prev, probe,
                 pend, batch, twin,
                 ticker, dual>>

NextView == ServiceViewQuery \/ ForgetQuery

SpecView == InitView /\ [][NextView]_vars

\* -------------------------------- Reconcile twice, the world unchanged
\* Two consecutive calls on a Scaler in any state: it has never scaled or
\* it scaled up at clock 1; there is no recorder, which plays no part.
InitTwice ==
  /\ minAgents \in 0..MaxCfg
  /\ maxAgents \in minAgents..MaxCfg
  /\ cooldown \in 0..MaxCooldown
  /\ metrics = FALSE
  /\ lastScaleTime \in {0, 1}
  /\ now = 1
  /\ ecsDesired \in 0..MaxDesired
  /\ lastDownApply = 0
  /\ cycle = NoCycle /\ protectRun = NoRun /\ run = RunNotStarted
  /\ waiters = NoWaiters /\ prev = NoPrev /\ probe = NoProbe /\ view = NoView
  /\ pend = NoPend /\ batch = NoBatch /\ twin = NoTwin
  /\ ticker = NoTicker /\ dual = NoDual

\* What is kept of a finished invocation.
digest(c) ==
  LET sets == SelectSeq(c.calls, LAMBDA k : k.op = "SetDesiredCount")
  IN  [ret |-> c.ret, busy |-> c.busy, idle |-> c.idle, pending |-> c.pending,
       currentDesired |-> c.currentDesired, desired |-> c.desired,
       reads |-> SubSeq(c.calls, 1, Min2(3, Len(c.calls))),
       wrote |-> IF Len(sets) = 0 THEN -1 ELSE sets[1].count,
       wroteOk |-> Len(sets) > 0 /\ ~sets[1].failed]

\* The first call.
First == prev.ret = "none" /\ Reconcile

\* The first call has returned; what it read and wrote is kept.
Keep ==
  /\ prev.ret = "none"
  /\ cycle.ret # "none"
  /\ prev' = digest(cycle)
  /\ cycle' = NoCycle
  /\ UNCHANGED <<config, metrics, lastScaleTime, now, ecsDesired, lastDownApply,
                 protectRun, run, waiters, probe, view, pend, batch, twin,
                 ticker, dual>>

\* The second call.  The world is unchanged: its reads succeed and return
\* the pending, busy and idle values of the first call, and nobody but the
\* first call has touched the service.
Second ==
  /\ prev.ret # "none"
  /\ Len(prev.reads) = 3
  /\ ~prev.reads[3].failed
  /\ ReconcileWith({rd \in ReadOutcomes :
                      /\ ~rd.errPool /\ ~rd.errPending /\ ~rd.errService
                      /\ rd.busy = prev.busy
                      /\ rd.idle = prev.idle
                      /\ rd.pending = prev.pending})
  /\ UNCHANGED <<protectRun, run, waiters, prev, probe, view, pend, batch, twin,
                 ticker, dual>>

\* Time passes between the two calls.
TickBetween == prev.ret # "none" /\ Tick

NextTwice == First \/ Keep \/ Second \/ TickBetween

SpecTwice == InitTwice /\ [][NextTwice]_vars

\* ------------------------------------------ Reconcile in a stable world
\* A cycle in a world that holds still: every remote call succeeds, pending
\* and busy are what the first cycle read, at least one agent is idle
\* whenever the target is below the service's desired count, and the
\* service takes over each count written to it at once.
StableCycle ==
  /\ ReconcileFrom(
       {rd \in ReadOutcomes :
          /\ ~rd.errPool /\ ~rd.errPending /\ ~rd.errService
          /\ prev.ret # "none" => rd.busy = prev.busy /\ rd.pending = prev.pending
          /\ computeDesired(rd.pending, rd.busy, minAgents, maxAgents) < ecsDesired
               => rd.idle >= 1},
       {p \in ProtectSummaries : ~p.err},
       {w \in WriteOutcomes : ~w.setErr /\ w.lat = 0 /\ ~w.atReturn})
  /\ UNCHANGED <<protectRun, run, waiters, prev, probe, view, pend, batch, twin,
                 ticker, dual>>

\* Wall time passes between cycles, without end: once the clock is at
\* MaxTime the times kept are moved back by one unit in its place (a time
\* MaxTime - 1 back or more stays that far back; 0 is no time).
Elapse ==
  /\ cycle.ret = "none"
  /\ prev.ret # "none"
  /\ IF now < MaxTime
       THEN now' = now + 1 /\ UNCHANGED <<lastScaleTime, lastDownApply>>
       ELSE /\ now' = now
            /\ lastScaleTime' = IF lastScaleTime > 1 THEN lastScaleTime - 1 ELSE lastScaleTime
            /\ lastDownApply' = IF lastDownApply > 1 THEN lastDownApply - 1 ELSE lastDownApply
  /\ UNCHANGED <<config, metrics, ecsDesired, cycle, protectRun, run, waiters, prev,
                 probe, view, pend, batch, twin, ticker, dual>>

NextConverge == StableCycle \/ Keep \/ (prev.ret # "none" /\ Forget) \/ Elapse

\* Run's ticks keep coming, so cycles begin again and again, and time goes
\* on between them.
SpecConverge ==
  /\ InitTwice /\ [][NextConverge]_vars
  /\ WF_vars(Keep) /\ WF_vars(Forget)
  /\ []<>(cycle.ret # "none")
  /\ SF_vars(Elapse)

\* ------------------------------------ pending runs, raw and by run type
\* The job service as a pending-run query finds it: whether reading the
\* agent pool fails and, per workspace of the pool, its plan-pending and
\* apply-pending runs and which of the two run listings fails.
PendingOutcomes ==
  LET Workspace == [plan : Counts, apply : Counts, err : {"none", "plan", "apply"}]
      Lists == UNION {[1..n -> Workspace] : n \in 0..MaxList}
  IN  {[poolErr |-> TRUE, workspaces |-> <<>>]}
      \cup {[poolErr |-> FALSE, workspaces |-> w] : w \in Lists}

\* What the raw client, a plan view, an apply view and a view with an
\* unknown run type return on the same state of the job service.
pendingQuery(pin) ==
  [ran |-> TRUE, in |-> pin,
   byType |-> GetPendingRunsByType(pin),
   raw |-> ClientGetPendingRuns(pin),
   plan |-> ServiceViewGetPendingRuns(RunTypePlan, pin),
   apply |-> ServiceViewGetPendingRuns(RunTypeApply, pin),
   other |-> ServiceViewGetPendingRuns(2, pin)]

PendingQuery ==
  /\ ~pend.ran
  /\ \E pin \in PendingOutcomes : pend' = pendingQuery(pin)
  /\ UNCHANGED <<config, metrics, lastScaleTime, now, ecsDesired, lastDownApply,
                 cycle, protectRun, run, waiters, prev, probe, view, batch, twin,
                 ticker, dual>>

NextPending == PendingQuery \/ ForgetQuery

SpecPending == InitView /\ [][NextPending]_vars

\* ------------------------------------ Reconcile through a tfc.ServiceView
\* A Scaler whose TFCClient is a plan-type ServiceView (runDualService).
InitViewCycle ==
  /\ Init
  /\ minAgents = 0
  /\ maxAgents = MaxCfg
  /\ cooldown = 0
  /\ metrics

\* The protection calls of the cycle's trace.
protectionPart(calls) ==
  SelectSeq(calls, LAMBDA k : k.op \in {"GetAgentDetails", "GetTaskIPs", "SetTaskProtection"})

\* One Reconcile of a Scaler whose s.tfc is a plan-type ServiceView: the
\* pool status and the pending runs are the view's, and so is the agent list
\* of protectBusyTasks.  The agent lists are short and the pool has at most
\* one workspace; the clock plays no part, the write returns at once.  When
\* the view is asked again within the cycle (GetAgentDetails, from
\* protectBusyTasks) the client and the supplier return the same as before,
\* or one of the two fails this time (Again).
ViewReconcile ==
  /\ ~view.ran
  /\ \E vin \in {v \in ViewOutcomes : Len(v.agents) <= MaxViewList},
        pin \in {q \in PendingOutcomes : Len(q.workspaces) <= 1},
        e \in BOOLEAN :
       LET pool == ServiceViewGetAgentPoolStatus(vin)
           pr == ServiceViewGetPendingRuns(RunTypePlan, pin)
           rd == [errPool |-> pool.err, busy |-> pool.busy, idle |-> pool.idle,
                  errPending |-> pr.err, pending |-> pr.n, errService |-> e]
           Again == {vin,
                     [NoView.in EXCEPT !.detailsErr = TRUE],
                     [NoView.in EXCEPT !.agents = vin.agents, !.ipsErr = TRUE]}
           protectInputs(d) ==
             IF d.err THEN {[NoRun.in EXCEPT !.detailsErr = TRUE]}
             ELSE {[NoRun.in EXCEPT !.agents = d.agents, !.tasksErr = TRUE]}
                  \cup {[NoRun.in EXCEPT !.agents = d.agents, !.tasks = t,
                                         !.enableErr = en, !.disableErr = dis]
                         : t \in {l \in TaskLists : Len(l) <= MaxViewList},
                           en \in BOOLEAN, dis \in BOOLEAN}
           Inputs == UNION {protectInputs(ServiceViewGetAgentDetails(v2)) : v2 \in Again}
           Prots == {[calls |-> summary(protectBusyTasks(x).calls),
                      err |-> protectBusyTasks(x).err] : x \in Inputs}
           first == [NoView EXCEPT
                       !.ran = TRUE, !.in = vin,
                       !.out = [pool |-> pool, details |-> ServiceViewGetAgentDetails(vin)]]
       IN  /\ ReconcileFrom({rd}, Prots,
                            {w \in WriteOutcomes : w.lat = 0 /\ ~w.atReturn})
           /\ pend' = IF pool.err THEN NoPend ELSE pendingQuery(pin)
           /\ IF protectionPart(cycle'.calls) = <<>>
                THEN view' = first /\ protectRun' = NoRun
                ELSE \E v2 \in Again :
                       LET d == ServiceViewGetAgentDetails(v2)
                       IN  \E x \in protectInputs(d) :
                             /\ summary(protectBusyTasks(x).calls) = protectionPart(cycle'.calls)
                             /\ view' = [first EXCEPT !.again = [ran |-> TRUE, in |-> v2, out |-> d]]
                             /\ protectRun' = [ran |-> TRUE, in |-> x, out |-> protectBusyTasks(x)]
  /\ UNCHANGED <<run, waiters, prev, probe, batch, twin,
                 ticker, dual>>

NextViewCycle == ViewReconcile \/ ForgetQuery

SpecViewCycle == InitViewCycle /\ [][NextViewCycle]_vars

\* --------------------------------------- ecs.Client.SetTaskProtection
\* How the remote calls of a SetTaskProtection on the handles arns can go:
\* none fails (failAt = 0) or the failAt-th request does, with or without
\* effect; every task is protected or every task is unprotected before.
BatchFailures(arns, enabled, minutes) ==
  LET Tasks == {arns[j] : j \in DOMAIN arns}
      Base == [taskArns |-> arns, enabled |-> enabled, minutes |-> minutes,
               before |-> [arn \in Tasks |-> FALSE], failAt |-> 0,
               failedApplied |-> FALSE]
  IN  {[Base EXCEPT !.before = [arn \in Tasks |-> b], !.failAt = f[1],
                    !.failedApplied = f[2]]
        : b \in BOOLEAN,
          f \in {<<0, FALSE>>}
                 \cup ((1..((Len(arns) + batchSize - 1) \div batchSize)) \X BOOLEAN)}

\* SetTaskProtection called on a list of n different handles.
SetTaskProtectionCall ==
  /\ ~batch.ran
  /\ cycle.ret = "none"
  /\ \E n \in 0..MaxArns, enabled \in BOOLEAN, minutes \in {0, ProtectionMinutes} :
       \E bin \in BatchFailures([i \in 1..n |-> i], enabled, minutes) :
         batch' = [ran |-> TRUE, in |-> bin, out |-> SetTaskProtection(bin)]
  /\ UNCHANGED <<config, metrics, lastScaleTime, now, ecsDesired, lastDownApply,
                 cycle, protectRun, run, waiters, prev, probe, view, pend, twin,
                 ticker, dual>>

\* One Reconcile whose s.ecs is the ECS client: when it comes to
\* protectBusyTasks, the agent list holds n busy agent records, all of one
\* task, and the enable call is the client's SetTaskProtection on the
\* handles protectBusyTasks gathers, sent in batches.
ClientCycle ==
  /\ ~batch.ran
  /\ \E n \in 1..MaxArns :
       LET agents == [i \in 1..n |-> [IP |-> "10.0.0.1", Status |-> "busy"]]
           tasks == <<[TaskArn |-> 1, PrivateIP |-> "10.0.0.1"]>>
           busyArns == partitionArns(agents, ipToArn(tasks), 1, <<>>, <<>>).busyArns
       IN  \E bin \in BatchFailures(busyArns, TRUE, ProtectionMinutes) :
             LET b == SetTaskProtection(bin)
                 x == [NoRun.in EXCEPT !.agents = agents, !.tasks = tasks,
                                       !.enableErr = b.err]
                 p == protectBusyTasks(x)
             IN  /\ ReconcileFrom(ReadOutcomes,
                                  {[calls |-> summary(p.calls), err |-> p.err]},
                                  {w \in WriteOutcomes : w.lat = 0 /\ ~w.atReturn})
                 /\ IF protectionPart(cycle'.calls) = <<>>
                      THEN batch' = NoBatch /\ protectRun' = NoRun
                      ELSE /\ batch' = [ran |-> TRUE, in |-> bin, out |-> b]
                           /\ protectRun' = [ran |-> TRUE, in |-> x, out |-> p]
  /\ UNCHANGED <<run, waiters, prev, probe, view, pend, twin,
                 ticker, dual>>

NextBatch == SetTaskProtectionCall \/ ClientCycle \/ ForgetQuery

SpecBatch == InitViewCycle /\ [][NextBatch]_vars

\* ----------------------------- Reconcile with and without a recorder
\* A Scaler with a recorder (SetMetrics).
InitSink ==
  /\ Init
  /\ minAgents = 0
  /\ maxAgents = MaxCfg
  /\ metrics

\* One Reconcile of the Scaler with its recorder.
SinkCycle ==
  /\ twin.stage = "none"
  /\ metrics
  /\ ReconcileCycle
  /\ twin' = [NoTwin EXCEPT !.stage = "sink", !.ecs0 = ecsDesired]
  /\ UNCHANGED <<protectRun, run, waiters, prev, probe, view, pend, batch,
                 ticker, dual>>

\* The cycle is kept, and the scene is set again for a Scaler of the same
\* configuration and the same lastScaleTime but with metrics == nil, at the
\* same time and with the service as it was.
Rewind ==
  /\ twin.stage = "sink"
  /\ cycle.ret # "none"
  /\ twin' = [twin EXCEPT !.stage = "rewound", !.cycle = cycle,
                          !.lastScaleTime = lastScaleTime, !.now = now]
  /\ cycle' = NoCycle
  /\ metrics' = FALSE
  /\ lastScaleTime' = cycle.lastScale0
  /\ now' = cycle.tCheck
  /\ ecsDesired' = twin.ecs0
  /\ lastDownApply' = cycle.prevDown
  /\ UNCHANGED <<config, protectRun, run, waiters, prev, probe, view, pend, batch,
                 ticker, dual>>

\* One Reconcile of the Scaler without recorder, every remote call
\* returning what it returned to the Scaler with the recorder: the reads
\* their values and errors, protectBusyTasks and SetDesiredCount, if they ran
\* there, going the way they went, the write returning at the same clock.
NoSinkCycle ==
  /\ twin.stage = "rewound"
  /\ LET c == twin.cycle
         errOf(i) == Len(c.calls) >= i /\ c.calls[i].failed
         SameReads == {rd \in ReadOutcomes :
                         /\ rd.errPool = errOf(1)
                         /\ rd.errPending = errOf(2)
                         /\ rd.errService = errOf(3)
                         /\ rd.busy = c.busy /\ rd.idle = c.idle /\ rd.pending = c.pending}
         SameProts == IF protectionPart(c.calls) = <<>> THEN ProtectSummaries
                      ELSE {p \in ProtectSummaries : p.calls = protectionPart(c.calls)}
         set == SelectSeq(c.calls, LAMBDA k : k.op = "SetDesiredCount")
         SameWrites == IF set = <<>> THEN WriteOutcomes
                       ELSE {w \in WriteOutcomes :
                               /\ w.setErr = set[1].failed
                               /\ c.tCheck + w.lat = twin.now
                               /\ c.tApply = (IF w.atReturn THEN twin.now ELSE c.tCheck)}
     IN  ReconcileFrom(SameReads, SameProts, SameWrites)
  /\ twin' = [twin EXCEPT !.stage = "both"]
  /\ UNCHANGED <<protectRun, run, waiters, prev, probe, view, pend, batch,
                 ticker, dual>>

\* The comparison is over; the Scaler with the recorder goes on from where
\* its cycle left it.
Settle ==
  /\ twin.stage = "both"
  /\ twin' = NoTwin
  /\ cycle' = NoCycle
  /\ metrics' = TRUE
  /\ UNCHANGED <<config, lastScaleTime, now, ecsDesired, lastDownApply,
                 protectRun, run, waiters, prev, probe, view, pend, batch,
                 ticker, dual>>

SinkTick == twin.stage = "none" /\ Tick

NextSink == SinkCycle \/ Rewind \/ NoSinkCycle \/ Settle \/ SinkTick

SpecSink == InitSink /\ [][NextSink]_vars

\* ----------------------- one agent list and one task list, seen twice
\* The same agents and the same tasks of one ECS service, as
\* protectBusyTasks of a Scaler on the raw client correlates them and as a
\* ServiceView over that service (ips from taskIPsFetcher) filters and
\* counts them; no remote call fails.
Correlate ==
  /\ ~protectRun.ran
  /\ ~view.ran
  /\ \E a \in AgentLists, t \in TaskLists :
       LET pin == [NoRun.in EXCEPT !.agents = a, !.tasks = t]
           vin == [NoView.in EXCEPT !.agents = a, !.ips = taskIPsFetcher(t)]
       IN  /\ protectRun' = [ran |-> TRUE, in |-> pin, out |-> protectBusyTasks(pin)]
           /\ view' = [NoView EXCEPT
                         !.ran = TRUE, !.in = vin,
                         !.out = [pool |-> ServiceViewGetAgentPoolStatus(vin),
                                  details |-> ServiceViewGetAgentDetails(vin)]]
  /\ UNCHANGED <<config, metrics, lastScaleTime, now, ecsDesired, lastDownApply,
                 cycle, run, waiters, prev, probe, pend, batch, twin,
                 ticker, dual>>

NextCorrelate == Correlate \/ ForgetQuery

SpecCorrelate == InitView /\ [][NextCorrelate]_vars

\* ------------------------------------------------ reading a cycle's trace
CallsOf(op) == SelectSeq(cycle.calls, LAMBDA k : k.op = op)

SetCalls == CallsOf("SetDesiredCount")

ProtCalls == CallsOf("SetTaskProtection")

Recorded(ev) == Len(SelectSeq(cycle.recorded, LAMBDA e : e = ev))

Results == Recorded("result:success") + Recorded("result:error")

ScaleEvents == Recorded("scale:up") + Recorded("scale:down")

\* The cycle has returned and its three reads succeeded.
ReadsOk ==
  /\ cycle.ret # "none"
  /\ Len(cycle.calls) >= 3
  /\ \A i \in 1..3 : ~cycle.calls[i].failed

ReadFailed ==
  /\ cycle.ret # "none"
  /\ \E i \in DOMAIN cycle.calls :
       /\ cycle.calls[i].op \in {"GetAgentPoolStatus", "GetPendingRuns", "GetServiceStatus"}
       /\ cycle.calls[i].failed

\* The cooldown was running when the cycle looked at it.
InCooldown ==
  cycle.lastScale0 # 0 /\ cycle.tCheck - cycle.lastScale0 < cooldown

\* currentDesired - min(currentDesired - target, idle), from the cycle's readings.
GuardedTarget ==
  LET by == cycle.currentDesired - cycle.desired
  IN  cycle.currentDesired - (IF by < cycle.idle THEN by ELSE cycle.idle)

ProtectionFailed ==
  \E i \in DOMAIN cycle.calls :
    /\ cycle.calls[i].op \in {"GetAgentDetails", "GetTaskIPs", "SetTaskProtection"}
    /\ cycle.calls[i].failed

\* ------------------------------------------------------------------ claims
\* C1: every SetDesiredCount(v) of a cycle has v >= currentDesired - idle,
\* with currentDesired and idle as read in that cycle: one cycle never
\* removes more workers than the idle count it observed.
C1_IdleGuard ==
  \A i \in DOMAIN cycle.calls :
    cycle.calls[i].op = "SetDesiredCount"
      => cycle.calls[i].count >= cycle.currentDesired - cycle.idle

\* A scale-down that the idle guard capped above the computed target.
C1_Witness ==
  /\ ReadsOk
  /\ Len(SetCalls) = 1
  /\ cycle.idle > 0
  /\ SetCalls[1].count = cycle.currentDesired - cycle.idle
  /\ SetCalls[1].count > cycle.desired

\* C2: a scale-down write (SetDesiredCount(v) with v < currentDesired) never
\* goes below the number of busy agents read in the same cycle.
C2_NeverBelowBusy ==
  \A i \in DOMAIN cycle.calls :
    (cycle.calls[i].op = "SetDesiredCount" /\ cycle.calls[i].count < cycle.currentDesired)
      => cycle.calls[i].count >= cycle.busy

\* C3: the target of a cycle is max(minA, min(pending + busy, maxA)); it lies
\* in minA..maxA and is at most pending + busy + minA.
C3_ComputeDesired ==
  ReadsOk =>
    LET sum == cycle.pending + cycle.busy
        capped == IF sum < maxAgents THEN sum ELSE maxAgents
        clamp == IF capped > minAgents THEN capped ELSE minAgents
    IN  /\ cycle.desired = clamp
        /\ minAgents <= cycle.desired
        /\ cycle.desired <= maxAgents
        /\ cycle.desired <= cycle.pending + cycle.busy + minAgents

\* The demand exceeds a positive maxAgents and the target is clamped to it.
C3_Witness ==
  /\ ReadsOk
  /\ cycle.pending > 0
  /\ cycle.busy > 0
  /\ cycle.pending + cycle.busy > maxAgents
  /\ cycle.desired = maxAgents
  /\ minAgents < maxAgents

\* C4: in a cycle with target > currentDesired the only call after the three
\* reads is SetDesiredCount(target), whatever lastScaleTime and cooldown are:
\* no GetAgentDetails, GetTaskIPs or SetTaskProtection.
C4_ScaleUpImmediate ==
  (ReadsOk /\ cycle.desired > cycle.currentDesired) =>
    /\ Len(cycle.calls) = 4
    /\ cycle.calls[4].op = "SetDesiredCount"
    /\ cycle.calls[4].count = cycle.desired

\* A scale-up written while the cooldown was running.
C4_Witness ==
  /\ ReadsOk
  /\ cycle.desired > cycle.currentDesired
  /\ InCooldown
  /\ Len(SetCalls) = 1
  /\ ~SetCalls[1].failed

\* C5: a scale-down cycle that finds the cooldown running makes no call
\* after its reads, returns nil, leaves lastScaleTime alone and, with a
\* recorder, records one cooldown skip and one result, a success.
C5_CooldownBlocks ==
  (ReadsOk /\ cycle.desired < cycle.currentDesired /\ InCooldown) =>
    /\ Len(cycle.calls) = 3
    /\ cycle.ret = "nil"
    /\ lastScaleTime = cycle.lastScale0
    /\ metrics => /\ Recorded("cooldown_skip") = 1
                  /\ Recorded("result:success") = 1
                  /\ Results = 1
                  /\ ScaleEvents = 0

\* A blocked scale-down whose skip was recorded.
C5_Witness ==
  /\ ReadsOk
  /\ cycle.desired < cycle.currentDesired
  /\ InCooldown
  /\ cycle.idle > 0
  /\ Recorded("cooldown_skip") = 1

\* C6: a successful scale-down write comes at least cooldown after the
\* previous successful scale-down write of the same Scaler.
C6_ScaleDownSeparation ==
  (/\ ReadsOk
   /\ Len(SetCalls) = 1
   /\ ~SetCalls[1].failed
   /\ SetCalls[1].count < cycle.currentDesired
   /\ cycle.prevDown # 0)
    => cycle.tApply - cycle.prevDown >= cooldown

\* A second scale-down under a positive cooldown.
C6_Witness ==
  /\ ReadsOk
  /\ Len(SetCalls) = 1
  /\ ~SetCalls[1].failed
  /\ SetCalls[1].count < cycle.currentDesired
  /\ cycle.prevDown # 0
  /\ cooldown > 0

\* C7: in a scale-down cycle past the cooldown with guardedTarget below
\* currentDesired, a failure of any step of the protection update still
\* leads to SetDesiredCount(guardedTarget) as the last call; with a recorder
\* one protection error is recorded, and when the write succeeds the cycle
\* returns nil and records a success.
C7_ProtectionNonFatal ==
  (/\ ReadsOk
   /\ cycle.desired < cycle.currentDesired
   /\ ~InCooldown
   /\ GuardedTarget < cycle.currentDesired
   /\ ProtectionFailed)
    => LET last == cycle.calls[Len(cycle.calls)]
       IN  /\ Len(SetCalls) = 1
           /\ last.op = "SetDesiredCount"
           /\ last.count = GuardedTarget
           /\ metrics => Recorded("protection_error") = 1
           /\ ~last.failed =>
                /\ cycle.ret = "nil"
                /\ metrics => (Recorded("result:success") = 1 /\ Results = 1)

\* The enable call failed and the scale-down was written all the same.
C7_Witness ==
  /\ ReadsOk
  /\ \E i \in DOMAIN cycle.calls :
       /\ cycle.calls[i].op = "SetTaskProtection"
       /\ cycle.calls[i].enabled
       /\ cycle.calls[i].failed
  /\ Len(SetCalls) = 1
  /\ ~SetCalls[1].failed
  /\ Recorded("protection_error") = 1
  /\ cycle.ret = "nil"

\* The SetTaskProtection calls of the protectBusyTasks run, in call order.
RunProtCalls == SelectSeq(protectRun.out.calls, LAMBDA k : k.op = "SetTaskProtection")

InArns(arn, call) == \E j \in DOMAIN call.arns : call.arns[j] = arn

\* The net effect of the run's protection calls on a task handle.
NetEnabled(arn) ==
  \E i \in DOMAIN RunProtCalls :
    /\ RunProtCalls[i].enabled
    /\ InArns(arn, RunProtCalls[i])
    /\ \A k \in DOMAIN RunProtCalls :
         (k > i /\ ~RunProtCalls[k].enabled) => ~InArns(arn, RunProtCalls[k])

NetDisabled(arn) ==
  \E i \in DOMAIN RunProtCalls :
    /\ ~RunProtCalls[i].enabled
    /\ InArns(arn, RunProtCalls[i])
    /\ \A k \in DOMAIN RunProtCalls :
         (k > i /\ RunProtCalls[k].enabled) => ~InArns(arn, RunProtCalls[k])

RunOk == protectRun.ran /\ ~protectRun.out.err

\* The tasks of the run have pairwise different, non-empty private IPs.
DistinctTaskIPs ==
  LET tasks == protectRun.in.tasks
  IN  \A i, j \in DOMAIN tasks :
        /\ tasks[i].PrivateIP # ""
        /\ (i # j => tasks[i].PrivateIP # tasks[j].PrivateIP)

\* C8: after protectBusyTasks returns without error, every task whose
\* private IP is the IP of a busy agent is left protected by the run's calls
\* and every task whose IP is the IP of an idle agent is left unprotected,
\* also when several agent records carry the same IP (stated for task lists
\* with pairwise different, non-empty IPs).
C8_BusyProtectedIdleCleared ==
  (RunOk /\ DistinctTaskIPs) =>
    LET agents == protectRun.in.agents
        tasks == protectRun.in.tasks
    IN  \A a \in DOMAIN agents, t \in DOMAIN tasks :
          agents[a].IP = tasks[t].PrivateIP =>
            /\ agents[a].Status = "busy" => NetEnabled(tasks[t].TaskArn)
            /\ agents[a].Status = "idle" => NetDisabled(tasks[t].TaskArn)

\* C9: when one of the three reads fails the cycle returns an error, makes
\* no further call (no SetDesiredCount, no SetTaskProtection), leaves
\* lastScaleTime alone and, with a recorder, records one error result and
\* nothing else (no gauge snapshot).
C9_ReadFailureAborts ==
  ReadFailed =>
    /\ cycle.ret = "error"
    /\ cycle.calls[Len(cycle.calls)].failed
    /\ Len(SetCalls) = 0
    /\ Len(ProtCalls) = 0
    /\ lastScaleTime = cycle.lastScale0
    /\ Recorded("gauge") = 0
    /\ metrics => cycle.recorded = <<"result:error">>

\* GetPendingRuns failed after a good GetAgentPoolStatus, recorder present.
C9_Witness ==
  /\ cycle.ret = "error"
  /\ Len(cycle.calls) = 2
  /\ cycle.calls[2].op = "GetPendingRuns"
  /\ cycle.calls[2].failed
  /\ cycle.recorded = <<"result:error">>

\* C10: when SetDesiredCount fails the cycle returns an error, lastScaleTime
\* keeps the value it had before the cycle and, with a recorder, one error
\* result and no scale event are recorded.
C10_WriteFailure ==
  (ReadsOk /\ \E i \in DOMAIN SetCalls : SetCalls[i].failed) =>
    /\ cycle.ret = "error"
    /\ lastScaleTime = cycle.lastScale0
    /\ ScaleEvents = 0
    /\ metrics => (Recorded("result:error") = 1 /\ Results = 1)

\* A failed scale-down write that took time, on a Scaler that never scaled.
C10_Witness ==
  /\ ReadsOk
  /\ Len(SetCalls) = 1
  /\ SetCalls[1].failed
  /\ SetCalls[1].count < cycle.currentDesired
  /\ now > cycle.tCheck
  /\ lastScaleTime = 0
  /\ Recorded("result:error") = 1

\* C11: a cycle whose computed target equals currentDesired makes no call
\* after its three reads (no SetDesiredCount, no SetTaskProtection), records
\* no cooldown skip and no scale event, leaves lastScaleTime alone and
\* returns nil; with a recorder it records one result, a success.
C11_NoOpWhenConverged ==
  (ReadsOk /\ cycle.desired = cycle.currentDesired) =>
    /\ Len(cycle.calls) = 3
    /\ Len(SetCalls) = 0
    /\ Len(ProtCalls) = 0
    /\ Recorded("cooldown_skip") = 0
    /\ ScaleEvents = 0
    /\ lastScaleTime = cycle.lastScale0
    /\ now = cycle.tCheck
    /\ cycle.ret = "nil"
    /\ metrics => (Recorded("result:success") = 1 /\ Results = 1)

\* A converged cycle with busy agents on a Scaler that scaled before.
C11_Witness ==
  /\ ReadsOk
  /\ cycle.desired = cycle.currentDesired
  /\ cycle.busy > 0
  /\ cycle.currentDesired > 0
  /\ cycle.lastScale0 # 0
  /\ Recorded("result:success") = 1

\* C12: as long as Run has not been called, the ready channel is open and
\* nothing has closed it, whatever direct Reconcile calls were made and
\* however they ended.
C12_OnlyRunLatches ==
  run.pc = "start" => (run.ready = "open" /\ run.closes = 0 /\ ~run.readyOnce)

\* A direct call that returned nil on a Scaler that an earlier direct call
\* had scaled.
C12_Witness ==
  /\ run.pc = "start"
  /\ cycle.ret = "nil"
  /\ cycle.lastScale0 # 0
  /\ run.ready = "open"

\* C13: close(s.ready) is executed at most once and never panics; a closed
\* channel stays closed; a poll made while it is closed sees it closed;
\* and once it is closed every goroutine receiving from Ready() returns.
C13_LatchOneShot ==
  /\ [](run.closes <= 1 /\ run.pc # "panic")
  /\ [][run.ready = "closed" =>
          /\ run'.ready = "closed"
          /\ waiters'.polled \in {waiters.polled, "closed"}]_vars
  /\ (run.ready = "closed") ~> (waiters.waiting = 0)

\* After cancellation and a failed cycle the channel is still closed, two
\* receivers have returned and the last poll saw it closed.
C13_Witness ==
  /\ run.ready = "closed"
  /\ run.ctx = "cancelled"
  /\ run.pc = "tickDone"
  /\ cycle.ret = "error"
  /\ waiters.unblocked >= 2
  /\ waiters.polled = "closed"

\* C14: the ready channel goes from open to closed only in the step in
\* which Run takes the nil result of a Reconcile it invoked; cycles that
\* fail never close it.
C14_ReadyImpliesSuccess ==
  [][(run.ready = "open" /\ run'.ready = "closed")
       => (run.pc \in Returned /\ cycle.ret = "nil")]_vars

\* The immediate cycle and a ticked cycle have both failed: Ready is open.
C14_Witness ==
  /\ run.pc = "tickDone"
  /\ cycle.ret = "error"
  /\ run.ready = "open"
  /\ run.ctx = "live"

\* C15: when Run leaves a Reconcile that returned nil, for the select or
\* the next cycle, the ready channel is closed; and a Reconcile invoked by
\* Run that returns nil leads to a closed ready channel.
C15_RunLatchesReady ==
  /\ [][(run.pc \in Returned /\ cycle.ret = "nil" /\ run'.pc \notin Returned)
          => run'.ready = "closed"]_vars
  /\ (run.pc \in Returned /\ cycle.ret = "nil") ~> (run.ready = "closed")

\* Run waits for the next tick with the ready channel closed.
C15_Witness ==
  /\ run.pc = "select"
  /\ run.ctx = "live"
  /\ ~run.tick
  /\ run.ready = "closed"

\* C18: after a Reconcile that returned an error Run goes to its select,
\* where the next tick starts the next cycle; Run returns only with its
\* context cancelled, and returns ctx.Err().
C18_RunSurvivesErrors ==
  [][/\ (run.pc \in Returned /\ cycle.ret = "error" /\ run'.pc # run.pc)
          => run'.pc = "select"
     /\ run'.pc = "returned" => (run'.ctx = "cancelled" /\ run'.ret = "ctx.Err")
     /\ run'.pc # "panic"]_vars

\* A ticked cycle returned nil with Ready still open: the immediate cycle
\* had failed and Run went on.
C18_Witness ==
  /\ run.pc = "tickDone"
  /\ cycle.ret = "nil"
  /\ run.ready = "open"

\* C19: with its context cancelled, Run starts no Reconcile, neither the
\* immediate one nor a ticked one.
C19_NoCycleAfterCancel ==
  [][run.ctx = "cancelled"
       => ~(cycle.ret = "none" /\ cycle'.ret # "none" /\ run'.pc \in Returned)]_vars

AllClosed(chans) == \A k \in DOMAIN chans : chans[k] = "closed"

\* C16: an IsReady call of a CompositeProbe returns true only with every
\* sub-probe's channel closed and false only if a channel was open when it
\* was called; with no channel closed during the call it returns true iff
\* all are closed (true for zero sub-probes, both scalers latched for the
\* two of dual-service mode); after a call returned true every call does.
C16_CompositeIsAnd ==
  [][/\ (probe.pc = "loop" /\ probe'.pc = "idle") =>
          /\ probe'.result = "true" => AllClosed(probe'.probes)
          /\ probe'.result = "false" => ~AllClosed(probe.atCall)
          /\ probe.atCall = probe.probes =>
                (probe'.result = "true" <=> AllClosed(probe.probes))
     /\ probe.result = "true" => probe'.result = "true"]_vars

\* The probe over two channels said not ready, then ready.
C16_Witness ==
  /\ Len(probe.probes) = 2
  /\ probe.pc = "idle"
  /\ probe.result = "true"
  /\ ~AllClosed(probe.atCall)

\* The IPs the supplier's map holds true for.
TaskIPSet == {ip \in DOMAIN view.in.ips : view.in.ips[ip]}

\* The positions of the client's agents with an IP in the set and status st.
Matching(st) ==
  {i \in DOMAIN view.in.agents :
     view.in.agents[i].IP \in TaskIPSet /\ view.in.agents[i].Status = st}

\* C20: when both fetches succeed, GetAgentPoolStatus of a ServiceView
\* returns busy = the number of busy agents with an IP in the task-IP set,
\* idle = the number of idle ones, total = busy + idle (other statuses are
\* not counted), and GetAgentDetails returns the agents with an IP in the
\* set, all of them, in the client's order.
C20_PoolFiltering ==
  (view.ran /\ ~view.in.detailsErr /\ ~view.in.ipsErr) =>
    /\ ~view.out.pool.err
    /\ view.out.pool.busy = Cardinality(Matching("busy"))
    /\ view.out.pool.idle = Cardinality(Matching("idle"))
    /\ view.out.pool.total = view.out.pool.busy + view.out.pool.idle
    /\ ~view.out.details.err
    /\ view.out.details.agents =
         SelectSeq(view.in.agents, LAMBDA a : a.IP \in TaskIPSet)

\* A busy agent of another service is dropped; an exited agent of this
\* service is returned by GetAgentDetails and not counted.
C20_Witness ==
  /\ view.ran
  /\ Len(view.in.agents) = 2
  /\ view.in.agents[1].Status = "busy"
  /\ view.in.agents[1].IP \notin TaskIPSet \cup {""}
  /\ view.in.agents[2].Status = "exited"
  /\ view.out.details.agents = <<view.in.agents[2]>>
  /\ view.out.pool.total = 0

\* Two consecutive calls have returned, the second after reading what the
\* first read, and the service's desired count is what the first call set
\* (if it set one).
TwiceUnchanged ==
  /\ prev.ret # "none"
  /\ ReadsOk
  /\ cycle.busy = prev.busy /\ cycle.idle = prev.idle /\ cycle.pending = prev.pending
  /\ prev.wrote # -1 => cycle.currentDesired = prev.wrote
  /\ prev.wrote = -1 => cycle.currentDesired = prev.currentDesired

\* The second call changed nothing: no write, no protection call, no stamp.
SecondNoMutation ==
  /\ Len(SetCalls) = 0
  /\ Len(ProtCalls) = 0
  /\ lastScaleTime = cycle.lastScale0

\* C17 as stated: of two consecutive calls against an unchanging world, at
\* most one issues SetDesiredCount and the second performs no mutation.
C17_Idempotent ==
  TwiceUnchanged =>
    /\ (IF prev.wrote = -1 THEN 0 ELSE 1) + Len(SetCalls) <= 1
    /\ SecondNoMutation

\* C17, amended: against an unchanging world the second call performs no
\* mutation when the first left the desired count at the target or no idle
\* agent was read; a second SetDesiredCount is issued only to go on with a
\* scale-down that the first call's idle guard capped above the target or
\* that the cooldown skipped.
C17_IdempotentOnceSettled ==
  TwiceUnchanged =>
    /\ (cycle.desired = cycle.currentDesired \/ cycle.idle = 0) => SecondNoMutation
    /\ Len(SetCalls) > 0 =>
         /\ Len(SetCalls) = 1
         /\ cycle.desired < cycle.currentDesired
         /\ SetCalls[1].count < cycle.currentDesired
         /\ SetCalls[1].count >= cycle.desired
         /\ \/ prev.wrote > prev.desired /\ prev.wrote < prev.currentDesired
            \/ prev.wrote = -1 /\ prev.desired < prev.currentDesired

\* The first call scaled down to the target, past a set lastScaleTime with
\* cooldown 0; the second call found the service there and did nothing.
C17_Witness ==
  /\ TwiceUnchanged
  /\ prev.wroteOk
  /\ prev.wrote = prev.desired
  /\ prev.wrote < prev.currentDesired
  /\ prev.idle > 0
  /\ cycle.ret = "nil"
  /\ Len(cycle.calls) = 3

\* C21: on the same state of the job service, with every call answered, the
\* plan-type ServiceView returns PlanPending (the plan-pending runs of all
\* workspaces), the apply-type ServiceView returns ApplyPending (their
\* apply-pending runs), and the two add up to what the raw client's
\* GetPendingRuns returns: every pending run is counted by exactly one view.
C21_PendingPartition ==
  LET ws == pend.in.workspaces
      RECURSIVE pendingOf(_, _)
      pendingOf(i, kind) ==
        IF i > Len(ws) THEN 0
        ELSE (IF kind = "plan" THEN ws[i].plan ELSE ws[i].apply) + pendingOf(i + 1, kind)
  IN  (pend.ran /\ ~pend.in.poolErr /\ \A i \in DOMAIN ws : ws[i].err = "none") =>
        /\ ~pend.plan.err /\ ~pend.apply.err /\ ~pend.raw.err /\ ~pend.byType.err
        /\ pend.plan.n = pend.byType.counts.PlanPending
        /\ pend.plan.n = pendingOf(1, "plan")
        /\ pend.apply.n = pend.byType.counts.ApplyPending
        /\ pend.apply.n = pendingOf(1, "apply")
        /\ pend.plan.n + pend.apply.n = pend.raw.n

\* Two workspaces, plan-pending runs in one and apply-pending runs in the
\* other: each view returns its own kind and the raw client both.
C21_Witness ==
  /\ pend.ran /\ ~pend.in.poolErr
  /\ Len(pend.in.workspaces) = 2
  /\ \A i \in 1..2 : pend.in.workspaces[i].err = "none"
  /\ pend.in.workspaces[1].plan > 0 /\ pend.in.workspaces[1].apply = 0
  /\ pend.in.workspaces[2].apply > 0
  /\ pend.plan.n > 0
  /\ pend.apply.n > 0
  /\ pend.raw.n = pend.plan.n + pend.apply.n

\* C22: for a list of n task handles and with every remote call succeeding,
\* ecs.Client.SetTaskProtection sends exactly ceil(n/10) UpdateTaskProtection
\* requests, each with 1 to 10 handles, whose handle lists in the order sent
\* make up the input list (every handle sent once), and returns no error;
\* for n = 0 it sends nothing and returns no error.
C22_Batching ==
  LET n == Len(batch.in.taskArns)
      reqs == batch.out.requests
      RECURSIVE sentFrom(_)
      sentFrom(i) == IF i > Len(reqs) THEN <<>> ELSE reqs[i].Tasks \o sentFrom(i + 1)
  IN  (batch.ran /\ cycle.ret = "none" /\ batch.in.failAt = 0) =>
        /\ ~batch.out.err
        /\ Len(reqs) * batchSize >= n
        /\ (Len(reqs) - 1) * batchSize < n \/ (n = 0 /\ Len(reqs) = 0)
        /\ \A i \in DOMAIN reqs : Len(reqs[i].Tasks) \in 1..batchSize
        /\ sentFrom(1) = batch.in.taskArns
        /\ \A i \in DOMAIN reqs : reqs[i].ProtectionEnabled = batch.in.enabled

\* 21 handles go out in three requests of 10, 10 and 1.
C22_Witness ==
  /\ batch.ran /\ cycle.ret = "none" /\ batch.in.failAt = 0
  /\ Len(batch.in.taskArns) = 2 * batchSize + 1
  /\ Len(batch.out.requests) = 3
  /\ Len(batch.out.requests[1].Tasks) = batchSize
  /\ Len(batch.out.requests[3].Tasks) = 1
  /\ ~batch.out.err

\* C23: for the same responses of the remote calls and the same prior
\* lastScaleTime, Reconcile with metrics == nil makes the same sequence of
\* client calls, returns the same result and leaves the same lastScaleTime
\* as Reconcile with a recorder; it records nothing, and it always runs to
\* its return (it never fails for want of the recorder).
C23_SinkIrrelevant ==
  /\ twin.stage = "rewound" => ENABLED NoSinkCycle
  /\ twin.stage = "both" =>
       /\ ~metrics
       /\ cycle.calls = twin.cycle.calls
       /\ cycle.ret = twin.cycle.ret
       /\ cycle.ret \in {"nil", "error"}
       /\ lastScaleTime = twin.lastScaleTime
       /\ cycle.recorded = <<>>

\* A scale-down after the cooldown, with protection calls and a write that
\* moves lastScaleTime: recorded by the one, and made alike by the other.
C23_Witness ==
  /\ twin.stage = "both"
  /\ twin.cycle.lastScale0 > 0
  /\ Len(twin.cycle.recorded) >= 3
  /\ cycle.recorded = <<>>
  /\ Len(ProtCalls) >= 1
  /\ Len(SetCalls) = 1
  /\ cycle.ret = "nil"
  /\ lastScaleTime > cycle.lastScale0
  /\ lastScaleTime = twin.lastScaleTime

\* C24: in one cycle the three reads come first, in their order, and a
\* write (SetDesiredCount, SetTaskProtection) is made only after all three
\* succeeded; there is at most one SetDesiredCount, at most one
\* SetTaskProtection with enabled = true and at most one with enabled =
\* false, and every SetTaskProtection precedes the SetDesiredCount.
C24_CallOrdering ==
  LET calls == cycle.calls
      ReadOps == <<"GetAgentPoolStatus", "GetPendingRuns", "GetServiceStatus">>
      CallsAt(op, en) == {i \in DOMAIN calls : calls[i].op = op /\ calls[i].enabled = en}
      Sets == CallsAt("SetDesiredCount", FALSE)
      Prots == CallsAt("SetTaskProtection", TRUE) \cup CallsAt("SetTaskProtection", FALSE)
  IN  /\ \A i \in DOMAIN calls : i <= 3 => calls[i].op = ReadOps[i]
      /\ \A i \in Sets \cup Prots : i > 3 /\ \A k \in 1..3 : ~calls[k].failed
      /\ Cardinality(Sets) <= 1
      /\ Cardinality(CallsAt("SetTaskProtection", TRUE)) <= 1
      /\ Cardinality(CallsAt("SetTaskProtection", FALSE)) <= 1
      /\ \A i \in Prots, j \in Sets : i < j

\* A scale-down with an enable call, a disable call and then the write.
C24_Witness ==
  /\ ReadsOk
  /\ Len(cycle.calls) = 8
  /\ cycle.calls[6].op = "SetTaskProtection" /\ cycle.calls[6].enabled
  /\ cycle.calls[7].op = "SetTaskProtection" /\ ~cycle.calls[7].enabled
  /\ cycle.calls[8].op = "SetDesiredCount"
  /\ cycle.calls[8].count < cycle.currentDesired

\* C25: lastScaleTime never decreases; it changes only in a Reconcile
\* cycle, and a cycle stamps it (with the time read after the write) iff its
\* SetDesiredCount returned no error, and then the value written differs
\* from the currentDesired read; on a no-op, cooldown-skip, idle-guard no-op,
\* read-failure or write-failure cycle it keeps the value it had.
C25_LastScaleTime ==
  /\ [](cycle.ret # "none" =>
          IF Len(SetCalls) = 1 /\ ~SetCalls[1].failed
            THEN /\ lastScaleTime = now
                 /\ lastScaleTime >= cycle.lastScale0
                 /\ SetCalls[1].count # cycle.currentDesired
            ELSE lastScaleTime = cycle.lastScale0)
  /\ [][/\ lastScaleTime' >= lastScaleTime
        /\ lastScaleTime' # lastScaleTime =>
             /\ cycle.ret = "none" /\ cycle'.ret = "nil"
             /\ \E i \in DOMAIN cycle'.calls :
                  cycle'.calls[i].op = "SetDesiredCount" /\ ~cycle'.calls[i].failed]_vars

\* A second successful write moves the stamp forward; the cycle before it
\* had left a stamp.
C25_Witness ==
  /\ cycle.ret = "nil"
  /\ Len(SetCalls) = 1
  /\ cycle.lastScale0 > 0
  /\ lastScaleTime > cycle.lastScale0

\* C26: in every cycle where target < currentDesired and idle = 0,
\* Reconcile issues no SetDesiredCount, leaves lastScaleTime as it was and
\* records no cooldown skip, whatever lastScaleTime and cooldown are.
C26_IdleZeroNoCooldownSkip ==
  (ReadsOk /\ cycle.desired < cycle.currentDesired /\ cycle.idle = 0)
    => /\ Len(SetCalls) = 0
       /\ lastScaleTime = cycle.lastScale0
       /\ Recorded("cooldown_skip") = 0

\* C27: in a cycle where target < currentDesired, the cooldown does not
\* block (lastScaleTime unset, or now - lastScaleTime >= cooldown, or
\* cooldown = 0) and idle > 0, Reconcile issues one SetDesiredCount, with
\* exactly currentDesired - min(currentDesired - target, idle); a Scaler that
\* never scaled (lastScaleTime unset) is among these cycles.
C27_GuardedScaleDown ==
  (ReadsOk /\ cycle.desired < cycle.currentDesired /\ ~InCooldown /\ cycle.idle > 0)
    => /\ Len(SetCalls) = 1
       /\ SetCalls[1].count = GuardedTarget
       /\ SetCalls[1].count < cycle.currentDesired

\* A Scaler with a cooldown that never scaled scales down on its first
\* cycle, by less than the distance to the target because of the idle count.
C27_Witness ==
  /\ ReadsOk
  /\ cooldown > 0
  /\ cycle.lastScale0 = 0
  /\ cycle.idle > 0
  /\ cycle.idle < cycle.currentDesired - cycle.desired
  /\ Len(SetCalls) = 1
  /\ SetCalls[1].count = cycle.currentDesired - cycle.idle

\* C28: when protectBusyTasks has read the agents and the tasks, its enable
\* list is the handles of the busy agents whose IP is a task's non-empty
\* private IP and its disable list the handles of all other agents whose IP
\* resolves; an agent whose IP resolves to no task is on neither list; the
\* enable call is made only with a non-empty list and with 120 minutes, the
\* disable call only with a non-empty list and with 0 minutes (and only when
\* the enable call, if made, did not fail).
C28_ProtectionPartition ==
  LET tasks == protectRun.in.tasks
      Resolves(agent) ==
        agent.IP # "" /\ \E t \in DOMAIN tasks : tasks[t].PrivateIP = agent.IP
      HandleOf(agent) ==
        LET last == CHOOSE t \in DOMAIN tasks :
                      /\ tasks[t].PrivateIP = agent.IP
                      /\ \A u \in DOMAIN tasks : tasks[u].PrivateIP = agent.IP => u <= t
        IN  tasks[last].TaskArn
      HandlesOf(want) ==
        LET sel == SelectSeq(protectRun.in.agents,
                             LAMBDA a : Resolves(a) /\ ((a.Status = "busy") = want))
        IN  [i \in 1..Len(sel) |-> HandleOf(sel[i])]
      on == SelectSeq(RunProtCalls, LAMBDA k : k.enabled)
      off == SelectSeq(RunProtCalls, LAMBDA k : ~k.enabled)
      onFailed == Len(on) = 1 /\ on[1].failed
  IN  (protectRun.ran /\ ~protectRun.in.detailsErr /\ ~protectRun.in.tasksErr) =>
        /\ Len(on) = (IF HandlesOf(TRUE) # <<>> THEN 1 ELSE 0)
        /\ \A i \in DOMAIN on :
             on[i].arns = HandlesOf(TRUE) /\ on[i].minutes = ProtectionMinutes
        /\ Len(off) = (IF HandlesOf(FALSE) # <<>> /\ ~onFailed THEN 1 ELSE 0)
        /\ \A i \in DOMAIN off :
             off[i].arns = HandlesOf(FALSE) /\ off[i].minutes = 0

\* A busy agent and an exited agent, each with the IP of its own task, and
\* both calls made: the first task is on the enable list, the second on the
\* disable list.
C28_Witness ==
  /\ protectRun.ran
  /\ Len(protectRun.in.agents) = 2 /\ Len(protectRun.in.tasks) = 2
  /\ protectRun.in.agents[1].Status = "busy"
  /\ protectRun.in.agents[2].Status = "exited"
  /\ \A i \in 1..2 : /\ protectRun.in.agents[i].IP # ""
                     /\ protectRun.in.agents[i].IP = protectRun.in.tasks[i].PrivateIP
  /\ protectRun.in.agents[1].IP # protectRun.in.agents[2].IP
  /\ Len(RunProtCalls) = 2
  /\ RunProtCalls[1].enabled /\ RunProtCalls[1].arns = <<1>>
  /\ ~RunProtCalls[2].enabled /\ RunProtCalls[2].arns = <<2>>

\* C29: when the k-th UpdateTaskProtection request fails, SetTaskProtection
\* has sent exactly k requests (none after the k-th) and returns an error;
\* the tasks of requests 1..k-1 keep the protection those requests set, and
\* the tasks of the requests never sent keep the protection they had; the
\* Reconcile cycle that made the call counts a protection error and still
\* makes its SetDesiredCount.
C29_BatchFailure ==
  LET k == batch.in.failAt
      reqs == batch.out.requests
      SentIn(arn, i) == \E j \in DOMAIN reqs[i].Tasks : reqs[i].Tasks[j] = arn
  IN  (batch.ran /\ k > 0) =>
        /\ Len(reqs) = k
        /\ batch.out.err
        /\ \A i \in DOMAIN reqs : reqs[i].failed = (i = k)
        /\ \A arn \in DOMAIN batch.out.state :
             /\ (\E i \in 1..(k - 1) : SentIn(arn, i)) =>
                  batch.out.state[arn] = batch.in.enabled
             /\ (\A i \in DOMAIN reqs : ~SentIn(arn, i)) =>
                  batch.out.state[arn] = batch.in.before[arn]
        /\ cycle.ret # "none" =>
             /\ Len(ProtCalls) = 1 /\ ProtCalls[1].failed /\ ProtCalls[1].enabled
             /\ Recorded("protection_error") = 1
             /\ Len(SetCalls) = 1
             /\ cycle.ret = (IF SetCalls[1].failed THEN "error" ELSE "nil")

\* The second of three requests of a cycle's enable call fails: two requests
\* were sent, and the cycle scaled down and returned nil.
C29_Witness ==
  /\ batch.ran
  /\ batch.in.failAt = 2
  /\ Len(batch.in.taskArns) > 2 * batchSize
  /\ Len(batch.out.requests) = 2
  /\ cycle.ret = "nil"
  /\ Len(SetCalls) = 1
  /\ SetCalls[1].count < cycle.currentDesired

\* C30: whenever the underlying GetAgentDetails, the task-IP supplier or
\* GetPendingRunsByType fails, the ServiceView method returns an error and no
\* partial counts, and the Reconcile driven through the view returns an
\* error without a SetDesiredCount or a SetTaskProtection.
C30_ViewFailuresAbort ==
  LET failed(in) == in.detailsErr \/ in.ipsErr
      Clean == /\ (view.ran /\ failed(view.in)) =>
                    /\ view.out.pool = [busy |-> 0, idle |-> 0, total |-> 0, err |-> TRUE]
                    /\ view.out.details = [agents |-> <<>>, err |-> TRUE]
               /\ (view.again.ran /\ failed(view.again.in)) =>
                    view.again.out = [agents |-> <<>>, err |-> TRUE]
               /\ (pend.ran /\ pend.byType.err) =>
                    /\ pend.plan = [n |-> 0, err |-> TRUE]
                    /\ pend.apply = [n |-> 0, err |-> TRUE]
      AnyFailure == \/ failed(view.in)
                    \/ pend.ran /\ pend.byType.err
                    \/ view.again.ran /\ failed(view.again.in)
  IN  /\ Clean
      /\ (view.ran /\ cycle.ret # "none" /\ AnyFailure) =>
           cycle.ret = "error" /\ Len(SetCalls) = 0 /\ Len(ProtCalls) = 0

\* C30: a ServiceView method under which GetAgentDetails, the task-IP
\* supplier or GetPendingRunsByType fails returns an error and zero values;
\* when that happens in GetAgentPoolStatus or GetPendingRuns, the reads of
\* the cycle, Reconcile returns an error without a SetDesiredCount or a
\* SetTaskProtection; when it happens in the GetAgentDetails that
\* protectBusyTasks calls, no SetTaskProtection is made and the cycle goes on
\* to its one SetDesiredCount.
C30_ViewReadFailuresAbort ==
  LET failed(in) == in.detailsErr \/ in.ipsErr
      Clean == /\ (view.ran /\ failed(view.in)) =>
                    /\ view.out.pool = [busy |-> 0, idle |-> 0, total |-> 0, err |-> TRUE]
                    /\ view.out.details = [agents |-> <<>>, err |-> TRUE]
               /\ (view.again.ran /\ failed(view.again.in)) =>
                    view.again.out = [agents |-> <<>>, err |-> TRUE]
               /\ (pend.ran /\ pend.byType.err) =>
                    /\ pend.plan = [n |-> 0, err |-> TRUE]
                    /\ pend.apply = [n |-> 0, err |-> TRUE]
      ReadFailure == failed(view.in) \/ (pend.ran /\ pend.byType.err)
      ProtectFailure == view.again.ran /\ failed(view.again.in)
      Done == view.ran /\ cycle.ret # "none"
  IN  /\ Clean
      /\ (Done /\ ReadFailure) =>
           /\ cycle.ret = "error"
           /\ Len(SetCalls) = 0 /\ Len(ProtCalls) = 0
           /\ ~view.again.ran
      /\ (Done /\ ProtectFailure) =>
           /\ ~ReadFailure
           /\ protectRun.out.err
           /\ Len(ProtCalls) = 0
           /\ Len(SetCalls) = 1
           /\ SetCalls[1].count < cycle.currentDesired
           /\ cycle.ret = (IF SetCalls[1].failed THEN "error" ELSE "nil")

\* The task-IP supplier fails under GetAgentPoolStatus: the cycle through
\* the view ends in an error after that one read.
C30_Witness ==
  /\ view.ran /\ cycle.ret # "none"
  /\ view.in.ipsErr
  /\ Len(view.in.agents) > 0
  /\ view.out.pool.err
  /\ cycle.ret = "error"
  /\ Len(cycle.calls) = 1

\* C31: with a recorder configured, every Reconcile invocation records
\* exactly one reconcile result, on every path (failed read, converged,
\* cooldown skip, idle guard leaving nothing to remove, failed write,
\* successful write), and the result is a success iff Reconcile returns nil.
C31_OneResultPerCycle ==
  (metrics /\ cycle.ret # "none") =>
    /\ Len(SelectSeq(cycle.recorded,
                     LAMBDA e : e \in {"result:success", "result:error"})) = 1
    /\ (\E i \in DOMAIN cycle.recorded : cycle.recorded[i] = "result:success")
         <=> cycle.ret = "nil"
    /\ cycle.recorded[Len(cycle.recorded)] \in {"result:success", "result:error"}

\* A cycle with a recorder that skipped a scale-down for the cooldown: the
\* skip and then one result, a success, were recorded.
C31_Witness ==
  /\ metrics
  /\ cycle.ret = "nil"
  /\ cycle.desired < cycle.currentDesired
  /\ cycle.recorded = <<"gauge", "cooldown_skip", "result:success">>

\* C36: a successful scale-up restarts the cooldown clock as a successful
\* scale-down does.  Every successful SetDesiredCount, up or down, leaves
\* lastScaleTime at the clock read after the call returned, which is not
\* before the call took effect; a cycle starts from the stamp the last
\* successful write left; and a cycle that wants to scale down and finds a
\* stamp less than cooldown old issues no SetDesiredCount and records a
\* cooldown skip, while a scale-down it applies takes effect no earlier
\* than the stamp plus cooldown.
C36_AnyWriteRestartsCooldown ==
  /\ []((ReadsOk /\ cycle.desired < cycle.currentDesired /\ cycle.lastScale0 # 0) =>
          IF cycle.tCheck < cycle.lastScale0 + cooldown
            THEN /\ Len(SetCalls) = 0
                 /\ cycle.ret = "nil"
                 /\ metrics => Recorded("cooldown_skip") = 1
            ELSE \A i \in DOMAIN SetCalls :
                   ~SetCalls[i].failed => cycle.tApply >= cycle.lastScale0 + cooldown)
  /\ [][(cycle.ret = "none" /\ cycle'.ret # "none") =>
          /\ cycle'.lastScale0 = lastScaleTime
          /\ \A i \in DOMAIN cycle'.calls :
               (cycle'.calls[i].op = "SetDesiredCount" /\ ~cycle'.calls[i].failed) =>
                 /\ lastScaleTime' = now'
                 /\ cycle'.tApply <= lastScaleTime'
                 /\ cycle'.tCheck <= cycle'.tApply]_vars

\* A Scaler that has scaled, and never down, wants to scale down less than
\* cooldown after its scale-up: the cycle is skipped and the skip counted.
C36_Witness ==
  /\ ReadsOk
  /\ metrics
  /\ cycle.lastScale0 # 0
  /\ cycle.prevDown = 0
  /\ cycle.desired < cycle.currentDesired
  /\ cycle.idle > 0
  /\ cycle.tCheck < cycle.lastScale0 + cooldown
  /\ Len(SetCalls) = 0
  /\ Recorded("cooldown_skip") = 1

\* C37: with readings >= 0 and 0 <= minAgents <= maxAgents, every value v
\* passed to SetDesiredCount has v >= minAgents and v >= 0 and differs from
\* the currentDesired read; a scale-up passes v = target <= maxAgents; a
\* scale-down passes target <= v < currentDesired, so it never goes below
\* the computed target.
C37_AppliedValueBounds ==
  \A i \in DOMAIN cycle.calls :
    cycle.calls[i].op = "SetDesiredCount" =>
      LET v == cycle.calls[i].count
      IN  /\ v >= minAgents
          /\ v >= 0
          /\ v # cycle.currentDesired
          /\ v > cycle.currentDesired =>
               (v = cycle.desired /\ v <= maxAgents)
          /\ v < cycle.currentDesired =>
               (cycle.desired <= v /\ v < cycle.currentDesired)

\* A scale-down from above maxAgents that the idle count stops above the
\* target, which is minAgents.
C37_Witness ==
  /\ ReadsOk
  /\ cycle.currentDesired > maxAgents
  /\ cycle.desired = minAgents
  /\ Len(SetCalls) = 1
  /\ SetCalls[1].count > cycle.desired
  /\ SetCalls[1].count < cycle.currentDesired

\* C39: within a cycle the enable call of protectBusyTasks comes before its
\* disable call; when the enable call fails no disable call is made in that
\* cycle, the failure is counted (with a recorder) and the cycle goes on to
\* SetDesiredCount with the guarded target, its last call.
C39_EnableBeforeDisable ==
  LET calls == cycle.calls
      Enables == {i \in DOMAIN calls : calls[i].op = "SetTaskProtection" /\ calls[i].enabled}
      Disables == {i \in DOMAIN calls : calls[i].op = "SetTaskProtection" /\ ~calls[i].enabled}
  IN  /\ \A i \in Enables, j \in Disables : i < j /\ ~calls[i].failed
      /\ \A i \in Enables :
           calls[i].failed =>
             /\ Disables = {}
             /\ Len(calls) = i + 1
             /\ calls[i + 1].op = "SetDesiredCount"
             /\ calls[i + 1].count = GuardedTarget
             /\ calls[i + 1].count < cycle.currentDesired
             /\ metrics => Recorded("protection_error") = 1

\* The enable call for one busy task failed: it is the only protection call
\* of the cycle, and the scale-down by the one idle agent follows.
C39_Witness ==
  /\ ReadsOk
  /\ cycle.idle = 1
  /\ Len(cycle.calls) = 7
  /\ cycle.calls[6].op = "SetTaskProtection"
  /\ cycle.calls[6].enabled
  /\ cycle.calls[6].failed
  /\ cycle.calls[6].count = 1
  /\ cycle.calls[7].op = "SetDesiredCount"
  /\ cycle.calls[7].count = cycle.currentDesired - 1

\* C40: a task with an empty private IP is entered neither in the ipToArn
\* map of protectBusyTasks nor in the task-IP set of a ServiceView; an agent
\* whose IP is empty is not kept and not counted by the ServiceView and
\* contributes no handle to the enable or the disable list, also when a
\* task has an empty private IP too: the lists hold one handle for each
\* agent whose non-empty IP is a task's IP, and only handles of tasks with a
\* non-empty IP.
C40_EmptyIPNeverCorrelates ==
  protectRun.ran =>
    LET agents == protectRun.in.agents
        tasks == protectRun.in.tasks
        prot == SelectSeq(protectRun.out.calls, LAMBDA k : k.op = "SetTaskProtection")
        Matched == {i \in DOMAIN agents :
                      /\ agents[i].IP # ""
                      /\ \E t \in DOMAIN tasks : tasks[t].PrivateIP = agents[i].IP}
        Counted == {i \in Matched : agents[i].Status \in {"busy", "idle"}}
        RECURSIVE handles(_)
        handles(k) == IF k = 0 THEN 0 ELSE Len(prot[k].arns) + handles(k - 1)
    IN  /\ "" \notin DOMAIN ipToArn(tasks)
        /\ "" \notin DOMAIN view.in.ips
        /\ \A k \in DOMAIN view.out.details.agents : view.out.details.agents[k].IP # ""
        /\ Len(view.out.details.agents) = Cardinality(Matched)
        /\ view.out.pool.total = Cardinality(Counted)
        /\ handles(Len(prot)) = Cardinality(Matched)
        /\ \A k \in DOMAIN prot :
             \A j \in DOMAIN prot[k].arns :
               \E t \in DOMAIN tasks :
                 tasks[t].TaskArn = prot[k].arns[j] /\ tasks[t].PrivateIP # ""

\* A busy agent without IP and a task without IP, next to an idle agent on
\* the second task: the view keeps the idle agent only, and the only
\* protection call is the disable call for the second task.
C40_Witness ==
  /\ protectRun.ran
  /\ protectRun.in.agents = <<[IP |-> "", Status |-> "busy"],
                              [IP |-> "10.0.0.1", Status |-> "idle"]>>
  /\ protectRun.in.tasks = <<[TaskArn |-> 1, PrivateIP |-> ""],
                             [TaskArn |-> 2, PrivateIP |-> "10.0.0.1"]>>
  /\ view.out.details.agents = <<[IP |-> "10.0.0.1", Status |-> "idle"]>>
  /\ view.out.pool.busy = 0
  /\ view.out.pool.idle = 1
  /\ Len(protectRun.out.calls) = 3
  /\ protectRun.out.calls[3].op = "SetTaskProtection"
  /\ ~protectRun.out.calls[3].enabled
  /\ protectRun.out.calls[3].arns = <<2>>

\* C32: in every execution of Run, also when a Reconcile takes longer than
\* pollInterval and a tick waits in ticker.C meanwhile, each Reconcile
\* begins at least pollInterval after the one before it began.
C32_TickSeparation ==
  ticker.gap # -1 => ticker.gap >= ticker.period


\* C33: in dual-service mode both Run loops execute under the one context of
\* runDualService; once that context is cancelled each Run returns in the
\* end, and runDualService has returned only when both goroutines, and so
\* both Run calls, are done.
C33_SupervisorShutdown ==
  /\ [](dual.pc = "returned" => \A k \in DOMAIN dual.s : dual.s[k].pc = "done")
  /\ [](\A k \in DOMAIN dual.s :
          dual.s[k].pc \in {"returned", "done"}
            => dual.ctx = "cancelled" /\ dual.s[k].ret = "ctx.Err")
  /\ \A k \in {"regular", "spot"} :
       (dual.ctx = "cancelled") ~> (dual.s[k].pc \in {"returned", "done"})
  /\ (dual.ctx = "cancelled") ~> (dual.pc = "returned")

C33_Witness ==
  /\ dual.pc = "returned"
  /\ dual.ctx = "cancelled"
  /\ \A k \in DOMAIN dual.s : dual.s[k].ret = "ctx.Err" /\ dual.s[k].ready = "closed"
  /\ dual.ecs["ECS_SERVICE"].desired # dual.ecs["ECS_SPOT_SERVICE"].desired

\* C34: a cycle of one reconciler leaves the other Scaler (its lastScaleTime,
\* its ready latch, its place in Run) and the other's ECS service as they
\* were, and what it decides follows from its own state alone: it reads its
\* own service, it skips for cooldown only when its own cooldown runs, and a
\* scale-up it computes is written whatever the other has done.
C34_ReconcilersIndependent ==
  [][\A k \in {"regular", "spot"} :
       LET o == IF k = "regular" THEN "spot" ELSE "regular"
           sc == dual.s[k]
       IN  dual'.s[k].inflight < sc.inflight =>
             /\ dual'.s[o] = dual.s[o]
             /\ dual'.ecs[dual.s[o].svc] = dual.ecs[dual.s[o].svc]
             /\ cycle'.lastScale0 = sc.lastScaleTime
             /\ ReadsOk' => cycle'.currentDesired = dual.ecs[sc.svc].desired
             /\ Recorded("cooldown_skip")' > 0
                  => cooldownActive(sc.lastScaleTime, now, sc.cooldown)
             /\ ReadsOk' /\ cycle'.desired > cycle'.currentDesired
                  => /\ Len(SetCalls') = 1
                     /\ SetCalls'[1].count = cycle'.desired
             /\ dual'.s[k].lastScaleTime # sc.lastScaleTime
                  => /\ Len(SetCalls') = 1
                     /\ ~SetCalls'[1].failed
                     /\ dual'.ecs[sc.svc].desired = SetCalls'[1].count]_vars

C34_Witness ==
  /\ dual.pc = "wait"
  /\ cycle.ret = "nil"
  /\ cycle.lastScale0 = 0
  /\ Len(SetCalls) = 1
  /\ ~SetCalls[1].failed
  /\ SetCalls[1].count < cycle.currentDesired
  /\ Len(ProtCalls) > 0
  /\ \A k \in DOMAIN dual.s : dual.s[k].lastScaleTime # 0

\* C35: in the production wiring a Reconcile of a Scaler is in flight only
\* while that Scaler's own Run is at one of its two calls, so never two at
\* once, and lastScaleTime is touched by that one goroutine only.
C35_SingleTickThread ==
  \A k \in DOMAIN dual.s :
    /\ dual.s[k].inflight <= 1
    /\ dual.s[k].inflight = 1 <=> dual.s[k].pc \in {"first", "tick"}

C35_Witness ==
  /\ \A k \in DOMAIN dual.s : dual.s[k].inflight = 1 /\ dual.s[k].pc = "tick"
  /\ \E k \in DOMAIN dual.s : dual.s[k].lastScaleTime # 0


\* C38: in a stable world (pending and busy constant, every remote call
\* succeeding, the service taking over each written count, time going on
\* between cycles, an idle agent whenever the target is below the desired
\* count) and with Run's ticks coming again and again, the service's desired
\* count becomes the target computeDesired(pending, busy, min, max) and stays
\* it, and once it is the target no cycle issues SetDesiredCount.
C38_ConvergesWhenStable ==
  /\ <>[](/\ prev.ret # "none"
          /\ ecsDesired = computeDesired(prev.pending, prev.busy, minAgents, maxAgents))
  /\ [][/\ prev.ret # "none"
        /\ ecsDesired = computeDesired(prev.pending, prev.busy, minAgents, maxAgents)
        => ecsDesired' = ecsDesired /\ Len(SetCalls') = 0]_vars

C38_Witness ==
  /\ prev.ret # "none"
  /\ prev.wroteOk
  /\ prev.wrote < prev.currentDesired
  /\ prev.wrote > prev.desired
  /\ cooldown > 0
  /\ cycle.ret = "nil"
  /\ cycle.lastScale0 # 0
  /\ Len(SetCalls) = 1
  /\ SetCalls[1].count = cycle.desired
  /\ ecsDesired = computeDesired(prev.pending, prev.busy, minAgents, maxAgents)

====
